---------------------------- MODULE Spec2Model ----------------------------
(***************************************************************************)
(* A model of apx-repack: the APXTLM encoder (ApxTlmWriter) and the two    *)
(* SAX-driven ingests (telemetry, datalink) that feed it.                  *)
(*                                                                         *)
(* The output file is the sequence of records the writer has written       *)
(* (writer.out).  The XML parser is modelled by its event stream: the      *)
(* variable xml is the parser's own stack of open elements (sax runs in    *)
(* strict mode, so close tags always match), and each handler of the       *)
(* ingest is one action.                                                   *)
(***************************************************************************)
EXTENDS Integers, Sequences, FiniteSets, TLC

VARIABLES
    file,       \* runRepack: the input file (exists, base name, first 64 KiB)
    kind,       \* dialect runRepack dispatched to: "telemetry", "datalink", "api";
                \* "none" before the dispatch and after a failed one
    profile,    \* the family of documents the input is drawn from
    includeJso, \* opts.includeJso
    pc,         \* "start" before runRepack has dispatched,
                \* "parse" while the parser delivers events, "done" after finish,
                \* "failed" after the parser or the input stream reported an error
    xml,        \* the parser's stack of open elements (name and attributes)
    sawRoot,    \* the parser has seen the root element
    lastEv,     \* the last parser event: "none", "open", "text", "close"
    nElems,     \* number of elements opened so far
    ctx,        \* telemetry ingest: the Ctx object
    dctx,       \* datalink ingest: the Ctx object
    writer,     \* the ApxTlmWriter instance (meaningful once created)
    call,       \* direct use of the encoder: the last method called, with its arguments
    nCalls,     \* direct use of the encoder: number of calls made
    accepted,   \* direct use of the encoder: per <<uplink, index>>, the last value
                \* passed to emitNumber with a declared index
    offered,    \* telemetry: the base timestamps the document has given before
                \* the header was written, in document order
    warned,     \* the last handler logged "JSO parse failed"
    inputTs,    \* history: the timestamp of the last row, event or uplink child
                \* read (last), and whether those read so far never went back
    capStart    \* history: the depth of the element at whose open tag the
                \* sub-tree capture that is active started, 0 when none is

vars == <<file, kind, profile, includeJso, pc, xml, sawRoot, lastEv, nElems, ctx, dctx, writer,
          call, nCalls, accepted, offered, warned, inputTs, capStart>>

-----------------------------------------------------------------------------
(* Bounds of the model.                                                    *)

\* Elements a document may open.
MaxElems == 6
\* Nesting depth of a document.
MaxDepth == 4
\* Nesting depth of a document of the "nest" family.
MaxNestDepth == 5
\* Encoder calls of the direct-API specification.
MaxCalls == 4
\* Encoder calls of the "wide" family of direct use, and the number of fields
\* its encoder has declared.
MaxWideCalls == 2
WideFields == 12
\* emitRaw calls of the "raw" family of direct use.
MaxRawCalls == 2
\* Encoder calls of the "info" family of direct use.
MaxInfoCalls == 3
\* Elements of a document of the "burst" family: a root, <data> and 257
\* events, one more than an event index of one byte can tell apart.
MaxBurst == 259
\* The cap on the field dictionary, MAX_FIELDS.  The source sets it to 2048;
\* the model runs the same code under a small cap so that documents of a few
\* elements reach it.
MAX_FIELDS == 6

-----------------------------------------------------------------------------
(* JavaScript numbers.  A finite double is (-1)^neg * m * 2^e with m odd   *)
(* (or m = 0, e = 0), so structural equality is Object.is: NaN equals NaN  *)
(* and -0 differs from +0.  The model uses doubles whose odd part is below *)
(* 2^31.                                                                   *)

NaN == [cls |-> "nan", neg |-> FALSE, m |-> 0, e |-> 0]
PosInf == [cls |-> "inf", neg |-> FALSE, m |-> 0, e |-> 0]
NegInf == [cls |-> "inf", neg |-> TRUE, m |-> 0, e |-> 0]
PosZero == [cls |-> "fin", neg |-> FALSE, m |-> 0, e |-> 0]
NegZero == [cls |-> "fin", neg |-> TRUE, m |-> 0, e |-> 0]

RECURSIVE Norm(_, _, _)
Norm(neg, m, e) ==
    IF m = 0 THEN [cls |-> "fin", neg |-> neg, m |-> 0, e |-> 0]
    ELSE IF m % 2 = 0 THEN Norm(neg, m \div 2, e + 1)
    ELSE [cls |-> "fin", neg |-> neg, m |-> m, e |-> e]

FromInt(i) == IF i < 0 THEN Norm(TRUE, 0 - i, 0) ELSE Norm(FALSE, i, 0)

RECURSIVE Pow2(_)
Pow2(n) == IF n <= 0 THEN 1 ELSE 2 * Pow2(n - 1)

RECURSIVE BitLen(_)
BitLen(n) == IF n = 0 THEN 0 ELSE 1 + BitLen(n \div 2)

\* a === b on numbers: NaN differs from itself, -0 equals +0.
StrictEquals(a, b) ==
    /\ a.cls # "nan"
    /\ b.cls # "nan"
    /\ \/ a = b
       \/ (a.cls = "fin" /\ b.cls = "fin" /\ a.m = 0 /\ b.m = 0)

\* Number.isFinite(v)
\* Object.is(a, b)
ObjectIs(a, b) == a = b

NumberIsFinite(v) == v.cls = "fin"

\* v >>> 0 (ToUint32): truncate toward zero, then reduce modulo 2^32.  NaN and
\* the infinities give 0.  The model passes no negative number to it (a
\* negative result's odd part would not fit).
ToUint32(v) ==
    IF v.cls # "fin" \/ v.m = 0 THEN PosZero
    ELSE IF v.e >= 32 THEN PosZero
    ELSE IF v.e < 0 THEN Norm(FALSE, v.m \div Pow2(0 - v.e), 0)
    ELSE IF v.e <= 1 THEN Norm(FALSE, v.m, v.e)
    ELSE Norm(FALSE, v.m % Pow2(32 - v.e), v.e)

\* a < b for finite non-negative doubles.
NumLess(a, b) ==
    LET la == IF a.m = 0 THEN -100000 ELSE BitLen(a.m) + a.e
        lb == IF b.m = 0 THEN -100000 ELSE BitLen(b.m) + b.e
    IN  IF la # lb THEN la < lb
        ELSE IF a.m = 0 THEN FALSE
        ELSE IF a.e >= b.e THEN a.m * Pow2(a.e - b.e) < b.m
        ELSE a.m < b.m * Pow2(b.e - a.e)

-----------------------------------------------------------------------------
(* Half-float codec.                                                       *)

\* The bits of the f32 that `f32[0] = val` stores, for the doubles of the model
\* that an f32 holds exactly (odd part below 2^24, normal exponent). The result
\* is split as <<sign, exp, mant>>, the three fields f32ToF16Bits extracts.
F32Fields(v) ==
    IF v.cls = "nan" THEN <<0, 255, 4194304>>
    ELSE IF v.cls = "inf" THEN <<IF v.neg THEN 1 ELSE 0, 255, 0>>
    ELSE IF v.m = 0 THEN <<IF v.neg THEN 1 ELSE 0, 0, 0>>
    ELSE LET p == BitLen(v.m) - 1
         IN  <<IF v.neg THEN 1 ELSE 0, p + v.e + 127, v.m * Pow2(23 - p) - Pow2(23)>>

F32Exact(v) ==
    \/ v.cls # "fin"
    \/ v.m = 0
    \/ /\ v.m < Pow2(24)
       /\ BitLen(v.m) - 1 + v.e + 127 >= 1
       /\ BitLen(v.m) - 1 + v.e + 127 <= 254

f32ToF16Bits(val) ==
    LET x == F32Fields(val)
        sign == x[1]
        exp == x[2]
        mant == x[3]
        exp16 == exp - 127 + 15
    IN  IF exp = 255 THEN sign * 32768 + 31 * 1024 + (IF mant # 0 THEN 512 ELSE 0)
        ELSE IF exp <= 112 THEN
            IF exp < 103 THEN sign * 32768
            ELSE LET shift == 113 - exp
                     m0 == (8388608 + mant) \div Pow2(shift)
                     m1 == IF m0 % 2 = 1 /\ (mant % Pow2(shift - 1)) # 0 THEN m0 + 1 ELSE m0
                 IN  sign * 32768 + m1
        ELSE IF exp16 >= 31 THEN sign * 32768 + 31 * 1024
        ELSE LET m0 == mant \div 8192
                 roundBit == (mant \div 4096) % 2
                 m1 == IF roundBit = 1 /\ (m0 % 2 = 1 \/ mant % 4096 # 0) THEN m0 + 1 ELSE m0
             IN  IF m1 = 1024
                 THEN (IF exp16 + 1 >= 31 THEN sign * 32768 + 31 * 1024
                       ELSE sign * 32768 + ((exp16 + 1) % 32) * 1024)
                 ELSE sign * 32768 + (exp16 % 32) * 1024 + (m1 % 1024)

f16ToF32Approx(bits) ==
    LET neg == (bits \div 32768) % 2 = 1
        e == (bits \div 1024) % 32
        f == bits % 1024
    IN  IF e = 0 THEN Norm(neg, f, -24)
        ELSE IF e = 31 THEN (IF f # 0 THEN NaN ELSE IF neg THEN NegInf ELSE PosInf)
        ELSE Norm(neg, 1024 + f, e - 25)

\* A chooseFloatSpec that narrows every finite value, without the round-trip
\* test.
chooseFloatSpecUntested(val) == IF NumberIsFinite(val) THEN "f16" ELSE "f32"

\* chooseFloatSpec(val).dspec; a double an f32 does not hold exactly never
\* equals an f16 value, so it takes the f32 branch.
chooseFloatSpec(val) ==
    IF NumberIsFinite(val) /\ F32Exact(val) /\ ObjectIs(f16ToF32Approx(f32ToF16Bits(val)), val)
    THEN "f16"
    ELSE "f32"

-----------------------------------------------------------------------------
(* Strings.  Text that the code splits, trims or parses is a sequence of   *)
(* one-character strings; names and literals written to the output are     *)
(* strings.                                                                *)

IsSpace(ch) == ch = " "

IsSep(ch) == ch = "," \/ ch = ";" \/ IsSpace(ch)

Digits == <<"0", "1", "2", "3", "4", "5", "6", "7", "8", "9">>

IsDigit(ch) == \E d \in 1..10 : Digits[d] = ch

DigitVal(ch) == (CHOOSE d \in 1..10 : Digits[d] = ch) - 1

\* String(chars): the characters joined.
RECURSIVE Str(_)
Str(s) == IF s = << >> THEN "" ELSE s[1] \o Str(Tail(s))

\* String(i) for a non-negative integer.
RECURSIVE IntToStr(_)
IntToStr(i) == IF i < 10 THEN Digits[i + 1] ELSE IntToStr(i \div 10) \o Digits[(i % 10) + 1]

\* s.trim()
RECURSIVE TrimLeft(_)
TrimLeft(s) == IF s # << >> /\ IsSpace(s[1]) THEN TrimLeft(Tail(s)) ELSE s

RECURSIVE TrimRight(_)
TrimRight(s) ==
    IF s # << >> /\ IsSpace(s[Len(s)]) THEN TrimRight(SubSeq(s, 1, Len(s) - 1)) ELSE s

Trim(s) == TrimRight(TrimLeft(s))

\* s.split(","): every comma separates, empty pieces are kept, "" gives [""].
RECURSIVE SplitComma(_, _, _)
SplitComma(s, acc, cur) ==
    IF s = << >> THEN Append(acc, cur)
    ELSE IF s[1] = "," THEN SplitComma(Tail(s), Append(acc, cur), << >>)
    ELSE SplitComma(Tail(s), acc, Append(cur, s[1]))

\* s.split(/[,\s;]+/): a run of separators separates once.
RECURSIVE SplitRuns(_, _, _, _)
SplitRuns(s, acc, cur, inRun) ==
    IF s = << >> THEN Append(acc, cur)
    ELSE IF IsSep(s[1])
         THEN (IF inRun THEN SplitRuns(Tail(s), acc, cur, TRUE)
               ELSE SplitRuns(Tail(s), Append(acc, cur), << >>, TRUE))
    ELSE SplitRuns(Tail(s), acc, Append(cur, s[1]), FALSE)

NonEmpty(t) == t # << >>

MapTrim(ts) == [i \in 1..Len(ts) |-> Trim(ts[i])]

MapStr(ts) == [i \in 1..Len(ts) |-> Str(ts[i])]

\* Number(s) for the decimal literals of the model: optional sign, digits,
\* optional fraction; surrounding blanks are ignored; "" is 0; anything
\* else is NaN.  A fraction is taken when it is a dyadic number.
RECURSIVE DigitsVal(_, _)
DigitsVal(s, acc) == IF s = << >> THEN acc ELSE DigitsVal(Tail(s), acc * 10 + DigitVal(s[1]))

AllDigits(s) == \A i \in 1..Len(s) : IsDigit(s[i])

RECURSIVE Pow5(_)
Pow5(n) == IF n <= 0 THEN 1 ELSE 5 * Pow5(n - 1)

DotPos(s) == IF \E i \in 1..Len(s) : s[i] = "." THEN CHOOSE i \in 1..Len(s) : s[i] = "." ELSE 0

RECURSIVE TrailingZeros(_)
TrailingZeros(s) ==
    IF s = << >> \/ s[Len(s)] # "0" THEN 0 ELSE 1 + TrailingZeros(SubSeq(s, 1, Len(s) - 1))

\* A decimal literal digits[.digits]: the integer part's trailing zeros are a
\* power of ten, so that epoch milliseconds stay within the model's integers.
UnsignedNumber(s, neg) ==
    LET d == DotPos(s)
        ip == IF d = 0 THEN s ELSE SubSeq(s, 1, d - 1)
        fp == IF d = 0 THEN << >> ELSE SubSeq(s, d + 1, Len(s))
        all == ip \o fp
        z == IF fp = << >> THEN TrailingZeros(ip) ELSE 0
        n == DigitsVal(SubSeq(all, 1, Len(all) - z), 0)
    IN  IF all = << >> \/ ~AllDigits(all) THEN NaN
        ELSE IF n % Pow5(Len(fp)) # 0 THEN NaN
        ELSE IF z > 0 THEN Norm(neg, n * Pow5(z), z)
        ELSE Norm(neg, n \div Pow5(Len(fp)), 0 - Len(fp))

Number(s) ==
    LET t == Trim(s)
    IN  IF t = << >> THEN PosZero
        ELSE IF t[1] = "-" THEN UnsignedNumber(Tail(t), TRUE)
        ELSE IF t[1] = "+" THEN UnsignedNumber(Tail(t), FALSE)
        ELSE UnsignedNumber(t, FALSE)

\* Math.floor(v) for the non-negative doubles of the model.
MathFloor(v) ==
    IF v.cls # "fin" \/ v.e >= 0 THEN v ELSE Norm(v.neg, v.m \div Pow2(0 - v.e), 0)

\* Attributes of an element, in document order: a sequence of <<key, value>>.
HasAttr(attrs, key) == \E i \in 1..Len(attrs) : attrs[i][1] = key

GetAttr(attrs, key) == attrs[CHOOSE i \in 1..Len(attrs) : attrs[i][1] = key][2]

-----------------------------------------------------------------------------
(* ApxTlmWriter.  A writer is a record of the object's fields plus out,    *)
(* the records it has written to its stream, in order.  Each method is an  *)
(* operator from the writer before the call to the writer after it.        *)

EmptyMap == [i \in {} |-> PosZero]

MapSet(map, key, v) == [i \in (DOMAIN map) \cup {key} |-> IF i = key THEN v ELSE map[i]]

\* new ApxTlmWriter(version, utcOffsetSeconds, startTimestampMs64, outFile)
NewWriter(version, utcOffsetSeconds, startTimestampMs64) ==
    [ declaredFields |-> 0,
      headerWritten |-> FALSE,
      lastWidx |-> -1,
      lastDown |-> EmptyMap,
      lastUp |-> EmptyMap,
      version |-> version,
      utcOffsetSeconds |-> utcOffsetSeconds,
      startTimestampMs64 |-> startTimestampMs64,
      out |-> << >> ]

write(w, rec) == [w EXCEPT !.out = Append(w.out, rec)]

\* A writeHeaderPlaceholder without the headerWritten guard.
writeHeaderUnguarded(w) ==
    [ write(w, [ k |-> "hdr",
                 magic |-> "APXTLM",
                 version |-> w.version % 65536,
                 payloadOffset |-> 44,
                 ts |-> w.startTimestampMs64,
                 utc |-> w.utcOffsetSeconds ])
      EXCEPT !.headerWritten = TRUE ]

writeHeaderPlaceholder(w) ==
    IF w.headerWritten THEN w
    ELSE [ write(w, [ k |-> "hdr",
                      magic |-> "APXTLM",
                      version |-> w.version % 65536,
                      payloadOffset |-> 44,
                      ts |-> w.startTimestampMs64,
                      utc |-> w.utcOffsetSeconds ])
           EXCEPT !.headerWritten = TRUE ]

\* An emitInfo that keeps the utc_offset of the object it is given.
emitInfoKeepOffset(w, info) ==
    LET i2 == IF ~info.hasTimestamp
              THEN [info EXCEPT !.hasTimestamp = TRUE,
                                !.timestamp = ToUint32(w.startTimestampMs64)]
              ELSE info
    IN  write(w, [k |-> "jso", name |-> "info", obj |-> i2])

\* An info object: its timestamp (hasTimestamp: timestamp != null) and
\* utc_offset; the other members are copied to the payload untouched.
emitInfo(w, info) ==
    LET i1 == [info EXCEPT !.utc_offset = FromInt(w.utcOffsetSeconds)]
        i2 == IF ~i1.hasTimestamp
              THEN [i1 EXCEPT !.hasTimestamp = TRUE,
                              !.timestamp = ToUint32(w.startTimestampMs64)]
              ELSE i1
    IN  write(w, [k |-> "jso", name |-> "info", obj |-> i2])

emitField(w, name) ==
    [ write(w, [k |-> "field", name |-> name]) EXCEPT !.declaredFields = w.declaredFields + 1 ]

emitEvtId(w, name, keys) ==
    write(w, [k |-> "evtid", name |-> name, keys |-> keys])

\* An emitTs that leaves the last-index cache as it was.
emitTsNoReset(w, ms) == write(w, [k |-> "ts", ms |-> ToUint32(ms)])

\* ms is already a uint32 at every call site.
emitTs(w, ms) ==
    [ write(w, [k |-> "ts", ms |-> ToUint32(ms)]) EXCEPT !.lastWidx = -1 ]

\* A writeIndexAndSpec that takes the one-byte form without testing that the
\* index lies past the last one.
writeIndexAndSpecAnyDelta(w, dspec, fieldIndex, v) ==
    LET delta == fieldIndex - w.lastWidx - 1
    IN  IF w.lastWidx >= 0 /\ delta <= 7
        THEN [ write(w, [ k |-> "val", form |-> "opt8", delta |-> delta % 8,
                          idx |-> w.lastWidx + 1 + (delta % 8),
                          dspec |-> dspec, v |-> v ])
               EXCEPT !.lastWidx = fieldIndex ]
        ELSE [ write(w, [ k |-> "val", form |-> "long", delta |-> -1,
                          idx |-> (fieldIndex % 8) + 8 * ((fieldIndex \div 8) % 256),
                          dspec |-> dspec, v |-> v ])
               EXCEPT !.lastWidx = fieldIndex ]

\* A value record's framing: the opt8 byte carries delta, the long form
\* carries the index's low 11 bits.  idx is the index a reader decodes; the
\* payload is v as F16Written gives it (f16) or in single precision (f32).
writeIndexAndSpec(w, dspec, fieldIndex, v) ==
    LET delta == fieldIndex - w.lastWidx - 1
    IN  IF w.lastWidx >= 0 /\ delta >= 0 /\ delta <= 7
        THEN [ write(w, [ k |-> "val", form |-> "opt8", delta |-> delta % 8,
                          idx |-> w.lastWidx + 1 + (delta % 8),
                          dspec |-> dspec, v |-> v ])
               EXCEPT !.lastWidx = fieldIndex ]
        ELSE [ write(w, [ k |-> "val", form |-> "long", delta |-> -1,
                          idx |-> (fieldIndex % 8) + 8 * ((fieldIndex \div 8) % 256),
                          dspec |-> dspec, v |-> v ])
               EXCEPT !.lastWidx = fieldIndex ]

\* A dir opcode that takes the place of a value in the last-index cache.
pushExtDirConsumesIndex(w) == [write(w, [k |-> "dir"]) EXCEPT !.lastWidx = -1]

pushExtDir(w) == write(w, [k |-> "dir"])

\* An emitNumber body without the change filter: every value is written.
emitNumberNoFilter(w, fieldIndex, v, uplink) ==
    LET Sample(w1) == writeIndexAndSpec(w1, chooseFloatSpec(v), fieldIndex, v)
    IN  IF uplink
        THEN Sample(pushExtDir([w EXCEPT !.lastUp = MapSet(w.lastUp, fieldIndex, v)]))
        ELSE Sample([w EXCEPT !.lastDown = MapSet(w.lastDown, fieldIndex, v)])

\* An emitNumber body that keeps one value cache for both directions.
emitNumberOneCache(w, fieldIndex, v, uplink) ==
    LET Sample(w1) == writeIndexAndSpec(w1, chooseFloatSpec(v), fieldIndex, v)
        Marked(w1) == IF uplink THEN pushExtDir(w1) ELSE w1
    IN  IF fieldIndex \in DOMAIN w.lastDown /\ ObjectIs(w.lastDown[fieldIndex], v) THEN w
        ELSE Sample(Marked([w EXCEPT !.lastDown = MapSet(w.lastDown, fieldIndex, v)]))

\* The body of emitNumber after its range check: the change filter, the
\* direction marker and the sample.
emitNumberDeclared(w, fieldIndex, v, uplink) ==
    LET Sample(w1) == writeIndexAndSpec(w1, chooseFloatSpec(v), fieldIndex, v)
        Cached(cache) == fieldIndex \in DOMAIN cache /\ ObjectIs(cache[fieldIndex], v)
    IN  IF uplink
        THEN IF Cached(w.lastUp) THEN w
             ELSE Sample(pushExtDir([w EXCEPT !.lastUp = MapSet(w.lastUp, fieldIndex, v)]))
        ELSE IF Cached(w.lastDown) THEN w
             ELSE Sample([w EXCEPT !.lastDown = MapSet(w.lastDown, fieldIndex, v)])

\* An emitNumber without the range check on fieldIndex.
emitNumberUnchecked(w, fieldIndex, v, uplink) == emitNumberDeclared(w, fieldIndex, v, uplink)

emitNumber(w, fieldIndex, v, uplink) ==
    IF ~(fieldIndex >= 0 /\ fieldIndex < w.declaredFields) THEN w
    ELSE emitNumberDeclared(w, fieldIndex, v, uplink)

emitValueF32(w, fieldIndex, v) == emitNumber(w, fieldIndex, v, FALSE)

emitUplinkValueF32(w, fieldIndex, v) == emitNumber(w, fieldIndex, v, TRUE)

emitEvt(w, evIndex, values) ==
    write(w, [k |-> "evt", idx |-> evIndex % 256, vals |-> values])

\* emitJso(name, obj) and emitJso(name, obj, ts): hasTs is typeof ts === "number".
emitJso(w, name, obj, hasTs, ts) ==
    LET w1 == IF hasTs THEN emitTs(w, ToUint32(ts)) ELSE w
    IN  write(w1, [k |-> "jso", name |-> name, obj |-> obj])

\* The largest chunk of a raw record, 0xFFFF.
RAW_CHUNK_MAX == 65535

\* The loop of emitRaw over a blob longer than RAW_CHUNK_MAX.  pushExt(raw)
\* is called once, before the loop: opcode tells whether the opcode byte
\* stands right before the chunk's name literal.
RECURSIVE RawChunks(_, _, _, _)
RawChunks(w, name, len, off) ==
    IF off >= len THEN w
    ELSE LET n == IF len - off < RAW_CHUNK_MAX THEN len - off ELSE RAW_CHUNK_MAX
         IN  RawChunks(write(w, [k |-> "raw", opcode |-> (off = 0), name |-> name, len |-> n]),
                       name, len, off + n)

\* emitRaw(name, data, ts).  data is a buffer by its length (len) and the
\* length of its deflate stream (comp); hasTs is typeof ts === "number".
emitRaw(w, name, data, hasTs, ts) ==
    LET w1 == IF hasTs THEN emitTs(w, ToUint32(ts)) ELSE w
        zipped == 4 + data.comp
    IN  IF zipped < data.len + 2
        THEN write(w1, [k |-> "zip", name |-> name, size |-> zipped, rawLen |-> data.len])
        ELSE IF data.len > RAW_CHUNK_MAX
        THEN RawChunks(w1, name, data.len, 0)
        ELSE write(w1, [k |-> "raw", opcode |-> TRUE, name |-> name, len |-> data.len])

\* A finalizeToFile that writes the stop byte twice.
finalizeToFileTwice(w) == write(write(w, [k |-> "stop"]), [k |-> "stop"])

finalizeToFile(w) == write(w, [k |-> "stop"])

-----------------------------------------------------------------------------
(* What the ingests take from their environment.                           *)

\* Date.UTC(2000, 0, 1) = 946684800000
EPOCH_2000_MS == Norm(FALSE, 924496875, 10)

\* fileMtimeMs(inputFile): the input file's modification time, 1750000000000.
fileMtimeMs == Norm(FALSE, 1708984375, 10)

\* The one ISO date of the model's documents, "2020-09-13T12:26:40Z".
IsoDate == <<"2", "0", "2", "0", "-", "0", "9", "-", "1", "3", "T",
             "1", "2", ":", "2", "6", ":", "4", "0", "Z">>

\* Date.parse(s): 1600000000000 for IsoDate, NaN for the other texts of the model.
DateParse(s) == IF s = IsoDate THEN Norm(FALSE, 48828125, 15) ELSE NaN

\* name.toLowerCase() on the element names of the model.
ToLowerCase(name) == IF name = "Telemetry" THEN "telemetry" ELSE name

\* buildInfoForInput(inputFile, kind, baseTsMs, {}, utcOffsetSeconds)
buildInfoForInput(fmt, baseTsMs, utcOffsetSeconds) ==
    [ format |-> fmt,
      importTimestamp |-> baseTsMs,
      hasTimestamp |-> TRUE,
      timestamp |-> ToUint32(baseTsMs),
      utc_offset |-> FromInt(utcOffsetSeconds) ]

EmptyIndex == [n \in {} |-> 0]

Min(a, b) == IF a < b THEN a ELSE b

-----------------------------------------------------------------------------
(* Telemetry ingest (repackTelemetryToApx_stream).  A handler is an        *)
(* operator from the pair [c: Ctx, w: writer] before the event to the pair *)
(* after it; c.hasWriter is `ctx.writer !== undefined`.                    *)

TlmCtxInit(utcOffsetSec) ==
    [ inTelemetry |-> FALSE, inData |-> FALSE, inFields |-> FALSE,
      inD |-> FALSE, inE |-> FALSE, inU |-> FALSE,
      currentD_ts |-> PosZero, currentD_text |-> << >>,
      currentE_attrs |-> << >>, currentE_text |-> << >>,
      uStackDepth |-> 0, uCurName |-> << >>, uCurTs |-> PosZero, uCurText |-> << >>,
      fields |-> << >>, fieldsDeclared |-> FALSE, nameToIndex |-> EmptyIndex,
      evtIndex |-> EmptyIndex,
      hasWriter |-> FALSE, wroteHeader |-> FALSE,
      baseTs |-> PosZero, utcOffsetSec |-> utcOffsetSec,
      stack |-> << >>, inDataDepth |-> 0,
      capJsoActive |-> FALSE, capJsoDepth |-> 0, capJsoName |-> "", capXml |-> << >>,
      lastTs |-> FromInt(-1) ]

splitFieldsSmart(s) == SelectSeq(MapTrim(SplitRuns(s, << >>, << >>, FALSE)), NonEmpty)

parseCsvKeepEmpty(s) == SplitComma(s, << >>, << >>)

SynthFields(n) == [i \in 1..n |-> "#" \o IntToStr(i - 1)]

\* The loop of declareFieldsIfNeeded: emitField and nameToIndex.set per field.
RECURSIVE TlmDeclareLoop(_, _)
TlmDeclareLoop(st, i) ==
    IF i >= Len(st.c.fields) THEN st
    ELSE LET f == st.c.fields[i + 1]
         IN  TlmDeclareLoop([ c |-> [st.c EXCEPT !.nameToIndex = MapSet(st.c.nameToIndex, f, i)],
                              w |-> emitField(st.w, f) ], i + 1)

TlmDeclareFieldsIfNeeded(st, tokenCountHint) ==
    IF st.c.fieldsDeclared THEN st
    ELSE LET f1 == IF Len(st.c.fields) = 0
                   THEN SynthFields(Min(tokenCountHint, MAX_FIELDS))
                   ELSE st.c.fields
             f2 == IF Len(f1) > MAX_FIELDS THEN SubSeq(f1, 1, MAX_FIELDS) ELSE f1
             s1 == TlmDeclareLoop([st EXCEPT !.c.fields = f2], 0)
         IN  [s1 EXCEPT !.c.fieldsDeclared = TRUE]

TlmDeclareEventIfNeeded(st, name, keys) ==
    IF ~st.c.hasWriter THEN st
    ELSE IF name \in DOMAIN st.c.evtIndex THEN st
    ELSE [ c |-> [st.c EXCEPT !.evtIndex =
                      MapSet(st.c.evtIndex, name, Cardinality(DOMAIN st.c.evtIndex))],
           w |-> emitEvtId(st.w, name, keys) ]

\* A maybeEmitTs that writes the marker whether or not the value changed.
maybeEmitTsAlways(st, t) ==
    LET ts == ToUint32(t)
    IN  [c |-> [st.c EXCEPT !.lastTs = ts], w |-> emitTs(st.w, ts)]

\* A maybeEmitTs that writes only the first marker of the file.
maybeEmitTsFirstOnly(st, t) ==
    LET ts == ToUint32(t)
    IN  IF st.c.lastTs = FromInt(-1)
        THEN [c |-> [st.c EXCEPT !.lastTs = ts], w |-> emitTs(st.w, ts)]
        ELSE st

maybeEmitTs(st, t) ==
    LET ts == ToUint32(t)
    IN  IF st.c.lastTs # ts
        THEN [c |-> [st.c EXCEPT !.lastTs = ts], w |-> emitTs(st.w, ts)]
        ELSE st

\* The captured XML is only re-parsed; the model keeps the tags and the text
\* and leaves the attributes out of the string.
openTagToString(name, attrs) == "<" \o name \o ">"

closeTagToString(name) == "</" \o name \o ">"

jsoSkip == {"D", "E", "U"}

\* A base timestamp kept as it is, with no test against the year 2000.
BaseTsUnchecked(baseTs) == baseTs

\* if (!(ctx.baseTs >= EPOCH_2000_MS)) ctx.baseTs = fileMtimeMs(inputFile)
BaseTsOrMtime(baseTs) == IF NumLess(baseTs, EPOCH_2000_MS) THEN fileMtimeMs ELSE baseTs

TlmOpenTag(st0, incJso, name, attrs) ==
    LET SetBaseTs(c, t) == IF NumberIsFinite(t) THEN [c EXCEPT !.baseTs = MathFloor(t)] ELSE c
        Info(c) ==
            IF name = "info" /\ HasAttr(attrs, "time")
            THEN SetBaseTs(c, Number(GetAttr(attrs, "time"))) ELSE c
        Timestamp(c) ==
            IF name = "timestamp" /\ HasAttr(attrs, "value") /\ GetAttr(attrs, "value") # << >>
            THEN SetBaseTs(c, DateParse(GetAttr(attrs, "value"))) ELSE c
        OpenWriter(st, c) ==
            IF ~c.wroteHeader
            THEN [ c |-> [c EXCEPT !.hasWriter = TRUE, !.wroteHeader = TRUE],
                   w |-> emitInfo(writeHeaderPlaceholder(
                                      NewWriter(1, c.utcOffsetSec, c.baseTs)),
                                  buildInfoForInput("telemetry", c.baseTs, c.utcOffsetSec)) ]
            ELSE [st EXCEPT !.c = c]
        Data(st, c) ==
            OpenWriter(st, [c EXCEPT !.inData = TRUE, !.inDataDepth = 1,
                                     !.baseTs = BaseTsOrMtime(c.baseTs)])
        ChildTs(t) == IF NumberIsFinite(t) THEN ToUint32(t) ELSE PosZero
        UChild(c) ==
            IF c.inU
            THEN [c EXCEPT !.uCurName = IF HasAttr(attrs, "name") THEN GetAttr(attrs, "name")
                                        ELSE IF HasAttr(attrs, "@_name")
                                        THEN GetAttr(attrs, "@_name")
                                        ELSE << >>,
                           !.uCurTs = ChildTs(IF HasAttr(attrs, "t")
                                              THEN Number(GetAttr(attrs, "t")) ELSE NaN),
                           !.uCurText = << >>]
            ELSE c
        StartCapture(c) ==
            IF ~c.capJsoActive
            THEN [c EXCEPT !.capJsoActive = TRUE, !.capJsoDepth = c.inDataDepth + 1,
                           !.capJsoName = name, !.capXml = << >>]
            ELSE c
        PushOpen(c) == [c EXCEPT !.capXml = Append(c.capXml, openTagToString(name, attrs))]
        Capture(c) == IF incJso /\ name \notin jsoSkip THEN PushOpen(StartCapture(c)) ELSE c
        Depth(c) == IF c.inData THEN [c EXCEPT !.inDataDepth = c.inDataDepth + 1] ELSE c
        InTelemetry(st, c) ==
            IF name = "data" THEN Data(st, c)
            ELSE IF ~c.inData THEN [st EXCEPT !.c = c]
            ELSE IF name = "D" THEN
                [st EXCEPT !.c = [c EXCEPT !.inD = TRUE,
                                           !.currentD_ts = IF HasAttr(attrs, "t")
                                                           THEN ToUint32(Number(GetAttr(attrs, "t")))
                                                           ELSE PosZero,
                                           !.currentD_text = << >>]]
            ELSE IF name = "E" THEN
                [st EXCEPT !.c = [c EXCEPT !.inE = TRUE, !.currentE_attrs = attrs,
                                           !.currentE_text = << >>]]
            ELSE IF name = "U" THEN
                [st EXCEPT !.c = [c EXCEPT !.inU = TRUE, !.uStackDepth = Len(c.stack)]]
            ELSE [st EXCEPT !.c = Depth(Capture(UChild(c)))]
        Pushed(st) ==
            IF ~st.c.inTelemetry /\ ToLowerCase(name) = "telemetry"
            THEN [st EXCEPT !.c.inTelemetry = TRUE]
            ELSE IF ~st.c.inTelemetry THEN st
            ELSE IF name = "fields" THEN [st EXCEPT !.c.inFields = TRUE]
            ELSE InTelemetry(st, Timestamp(Info(st.c)))
    IN  Pushed([st0 EXCEPT !.c.stack = Append(st0.c.stack, name)])

TlmText(st, txt) ==
    LET SetFields(c, candidate) ==
            IF Len(candidate) >= 5 THEN [c EXCEPT !.fields = candidate] ELSE c
        Fields(c) ==
            IF c.inFields /\ Trim(txt) # << >>
            THEN SetFields(c, MapStr(splitFieldsSmart(Trim(txt)))) ELSE c
        DText(c) == IF c.inD THEN [c EXCEPT !.currentD_text = c.currentD_text \o txt] ELSE c
        EText(c) == IF c.inE THEN [c EXCEPT !.currentE_text = c.currentE_text \o txt] ELSE c
        UText(c) == IF c.inU THEN [c EXCEPT !.uCurText = c.uCurText \o txt] ELSE c
        CapText(c) ==
            IF c.capJsoActive /\ txt # << >>
            THEN [c EXCEPT !.capXml = Append(c.capXml, Str(txt))] ELSE c
    IN  [st EXCEPT !.c = CapText(UText(EText(DText(Fields(st.c)))))]

\* The D row's loop: one emitNumber per non-empty finite token.
RECURSIVE TlmRowLoop(_, _, _, _)
TlmRowLoop(w, parts, i, lim) ==
    IF i >= lim THEN w
    ELSE LET tok == parts[i + 1]
             n == Number(tok)
         IN  IF tok = << >> THEN TlmRowLoop(w, parts, i + 1, lim)
             ELSE IF NumberIsFinite(n) THEN TlmRowLoop(emitNumber(w, i, n, FALSE), parts, i + 1, lim)
             ELSE TlmRowLoop(w, parts, i + 1, lim)

TlmCloseD(st) ==
    LET Row(s, parts) ==
            [s EXCEPT !.w = TlmRowLoop(s.w, parts, 0,
                                       Min(Len(parts), IF Len(s.c.fields) # 0
                                                       THEN Len(s.c.fields) ELSE MAX_FIELDS))]
        Ts(s) == maybeEmitTs(s, s.c.currentD_ts)
        Declared(s, parts) == Row(Ts(TlmDeclareFieldsIfNeeded(s, Len(parts))), parts)
    IN  Declared([st EXCEPT !.c.inD = FALSE], parseCsvKeepEmpty(st.c.currentD_text))

\* Object.keys(a).filter(k => k !== "name" && k !== "t")
RECURSIVE EvtKeys(_)
EvtKeys(attrs) ==
    IF attrs = << >> THEN << >>
    ELSE IF attrs[1][1] = "name" \/ attrs[1][1] = "t" THEN EvtKeys(Tail(attrs))
    ELSE <<attrs[1][1]>> \o EvtKeys(Tail(attrs))

\* The values of an event: the trimmed text for the key "text", else the
\* attribute of that name (or "" when there is none).
EvtVals(keys, attrs, text) ==
    [i \in 1..Len(keys) |->
        IF keys[i] = "text" THEN Str(Trim(text))
        ELSE IF HasAttr(attrs, keys[i]) THEN Str(GetAttr(attrs, keys[i]))
        ELSE ""]

TlmCloseE(st) ==
    LET Emit(s, a, evName, keys) ==
            [s EXCEPT !.w = emitEvt(s.w, s.c.evtIndex[evName],
                                    EvtVals(keys, a, st.c.currentE_text))]
        Event(s, a, evName, ts, keys) ==
            Emit(maybeEmitTs(TlmDeclareEventIfNeeded(s, evName, keys), ts), a, evName, keys)
        Named(s, a, keys) ==
            Event(s, a,
                  IF HasAttr(a, "name") THEN Str(GetAttr(a, "name")) ELSE "event",
                  IF HasAttr(a, "t") THEN Number(GetAttr(a, "t")) ELSE PosZero,
                  keys)
    IN  Named([st EXCEPT !.c.inE = FALSE], st.c.currentE_attrs,
              IF st.c.currentE_text # << >> /\ Trim(st.c.currentE_text) # << >>
              THEN Append(EvtKeys(st.c.currentE_attrs), "text")
              ELSE EvtKeys(st.c.currentE_attrs))

\* The close tag of a child of <U>: one uplink sample.
TlmCloseUChild(st) ==
    LET Declare(s) ==
            IF ~s.c.fieldsDeclared /\ Len(s.c.fields) >= 1
            THEN TlmDeclareFieldsIfNeeded(s, Len(s.c.fields)) ELSE s
        NewField(s, nm) ==
            IF nm \notin DOMAIN s.c.nameToIndex /\ Len(s.c.fields) < MAX_FIELDS
            THEN [ c |-> [s.c EXCEPT !.fields = Append(s.c.fields, nm),
                                     !.nameToIndex = MapSet(s.c.nameToIndex, nm,
                                                            Len(s.c.fields))],
                   w |-> emitField(s.w, nm) ]
            ELSE s
        EmitValue(s, nm, v) == [s EXCEPT !.w = emitNumber(s.w, s.c.nameToIndex[nm], v, TRUE)]
        Sample(s, nm, v) ==
            IF nm \in DOMAIN s.c.nameToIndex /\ NumberIsFinite(v)
            THEN EmitValue(maybeEmitTs(s, ToUint32(s.c.uCurTs)), nm, v) ELSE s
        Child(s, nm, txt) ==
            IF nm # "" THEN Sample(NewField(Declare(s), nm), nm, Number(txt)) ELSE s
        Reset(s) == [s EXCEPT !.c.uCurName = << >>, !.c.uCurTs = PosZero, !.c.uCurText = << >>]
    IN  Reset(Child(st, Str(Trim(st.c.uCurName)), Trim(st.c.uCurText)))

\* name === ctx.capJsoName && ctx.inDataDepth === ctx.capJsoDepth, with the
\* capture active: this close tag ends the captured sub-tree.
TlmCaptureEnds(c, name) ==
    c.capJsoActive /\ name = c.capJsoName /\ c.inDataDepth = c.capJsoDepth

\* A capture block whose reset is skipped when the re-parse throws.
TlmCloseCaptureNoReset(st, name, parseOk, normalized) ==
    LET EndCapture(c) ==
            IF ~parseOk THEN [st EXCEPT !.c = c]
            ELSE [ c |-> [c EXCEPT !.capJsoActive = FALSE, !.capJsoDepth = 0,
                                   !.capJsoName = "", !.capXml = << >>],
                   w |-> IF normalized
                         THEN emitJso(st.w, "nodes", [xml |-> c.capXml], FALSE, PosZero)
                         ELSE emitJso(st.w, c.capJsoName, [xml |-> c.capXml], FALSE, PosZero) ]
        Pushed(c) ==
            IF TlmCaptureEnds(c, name)
            THEN EndCapture(c) ELSE [st EXCEPT !.c = c]
    IN  IF ~st.c.capJsoActive THEN st
        ELSE Pushed([st.c EXCEPT !.capXml = Append(st.c.capXml, closeTagToString(name))])

\* The capture block of the close handler.  parseOk: XMLParser.parse did not
\* throw; normalized: tryNormalizeNodes recognised a node dictionary.
TlmCloseCapture(st, name, parseOk, normalized) ==
    LET EndCapture(c) ==
            [ c |-> [c EXCEPT !.capJsoActive = FALSE, !.capJsoDepth = 0,
                              !.capJsoName = "", !.capXml = << >>],
              w |-> IF ~parseOk THEN st.w
                    ELSE IF normalized
                    THEN emitJso(st.w, "nodes", [xml |-> c.capXml], FALSE, PosZero)
                    ELSE emitJso(st.w, c.capJsoName, [xml |-> c.capXml], FALSE, PosZero) ]
        Pushed(c) ==
            IF TlmCaptureEnds(c, name)
            THEN EndCapture(c) ELSE [st EXCEPT !.c = c]
    IN  IF ~st.c.capJsoActive THEN st
        ELSE Pushed([st.c EXCEPT !.capXml = Append(st.c.capXml, closeTagToString(name))])

TlmCloseTag(st, name, parseOk, normalized) ==
    LET UChild(s) == IF s.c.inU /\ name # "U" THEN TlmCloseUChild(s) ELSE s
        Depth(c) == IF c.inData THEN [c EXCEPT !.inDataDepth = c.inDataDepth - 1] ELSE c
        Telemetry(c) ==
            IF ToLowerCase(name) = "telemetry" THEN [c EXCEPT !.inTelemetry = FALSE] ELSE c
        Data(c) == IF name = "data" THEN [c EXCEPT !.inData = FALSE] ELSE c
        StackPop(c) == [c EXCEPT !.stack = IF c.stack = << >> THEN << >>
                                           ELSE SubSeq(c.stack, 1, Len(c.stack) - 1)]
        Leave(s) == [s EXCEPT !.c = StackPop(Data(Telemetry(Depth(s.c))))]
    IN  IF name = "fields" THEN [st EXCEPT !.c.inFields = FALSE]
        ELSE IF name = "D" /\ st.c.inD THEN TlmCloseD(st)
        ELSE IF name = "E" /\ st.c.inE THEN TlmCloseE(st)
        ELSE IF name = "U" /\ st.c.inU /\ Len(st.c.stack) = st.c.uStackDepth
        THEN [st EXCEPT !.c.inU = FALSE, !.c.uStackDepth = 0]
        ELSE Leave(TlmCloseCapture(UChild(st), name, parseOk, normalized))

\* After the parser's "end": finalize, or write an empty file.
TlmFinish(st) ==
    IF st.c.hasWriter THEN [st EXCEPT !.w = finalizeToFile(st.w)]
    ELSE [st EXCEPT !.w = finalizeToFile(
                              emitInfo(writeHeaderPlaceholder(
                                           NewWriter(1, st.c.utcOffsetSec, fileMtimeMs)),
                                       buildInfoForInput("telemetry", fileMtimeMs,
                                                         st.c.utcOffsetSec)))]

-----------------------------------------------------------------------------
(* Datalink ingest (repackDatalinkToApx_stream), in the same form.         *)

TELEMETRY_TAGS == {"S", "D"}

EVENT_TAGS == {"event", "evt"}

SKIP_TOP_LEVEL == {"S", "D", "event", "evt", "#text", "@_"}

DlCtxInit(utcOffset) ==
    [ hasWriter |-> FALSE, wroteHeader |-> FALSE,
      utcOffset |-> utcOffset, baseTs |-> PosZero,
      fields |-> << >>, fieldsDeclared |-> FALSE,
      stack |-> << >>,
      inCsv |-> FALSE, csvTag |-> "", csvAttrs |-> << >>, csvText |-> << >>,
      inEvt |-> FALSE, evtName |-> "", evtAttrs |-> << >>, evtText |-> << >>,
      evtIndex |-> EmptyIndex,
      capJsoActive |-> FALSE, capJsoDepth |-> 0, capJsoName |-> "", capXml |-> << >> ]

RECURSIVE DlDeclareLoop(_, _, _)
DlDeclareLoop(w, fields, i) ==
    IF i > Len(fields) THEN w ELSE DlDeclareLoop(emitField(w, fields[i]), fields, i + 1)

DlDeclareFieldsIfNeeded(st, tokenCountHint) ==
    IF st.c.fieldsDeclared THEN st
    ELSE IF ~st.c.hasWriter THEN st
    ELSE LET f1 == IF Len(st.c.fields) = 0
                   THEN SynthFields(Min(tokenCountHint, MAX_FIELDS))
                   ELSE st.c.fields
             f2 == IF Len(f1) > MAX_FIELDS THEN SubSeq(f1, 1, MAX_FIELDS) ELSE f1
         IN  [ c |-> [st.c EXCEPT !.fields = f2, !.fieldsDeclared = TRUE],
               w |-> DlDeclareLoop(st.w, f2, 1) ]

DlDeclareEventIfNeeded(st, name, keys) ==
    IF ~st.c.hasWriter THEN st
    ELSE IF name \in DOMAIN st.c.evtIndex THEN st
    ELSE [ c |-> [st.c EXCEPT !.evtIndex =
                      MapSet(st.c.evtIndex, name, Cardinality(DOMAIN st.c.evtIndex))],
           w |-> emitEvtId(st.w, name, keys) ]

\* filter(x => x.length || x === "") keeps every token.
splitTokensLoose(s) == MapTrim(SplitRuns(s, << >>, << >>, FALSE))

\* utcOffset / 60, for the offsets of the model (multiples of 15 seconds).
UtcOffsetInMinutes(utcOffset) == Norm(utcOffset < 0, (IF utcOffset < 0 THEN 0 - utcOffset ELSE utcOffset) \div 15, -2)

\* attrs["time_ms"] ?? attrs["UTC"], and the row's t ?? ts ?? time_ms ?? UTC.
RECURSIVE FirstAttr(_, _)
FirstAttr(attrs, keys) ==
    IF keys = << >> THEN [has |-> FALSE, val |-> << >>]
    ELSE IF HasAttr(attrs, keys[1]) THEN [has |-> TRUE, val |-> GetAttr(attrs, keys[1])]
    ELSE FirstAttr(attrs, Tail(keys))

DlOpenTag(st0, incJso, name, attrs) ==
    LET BaseTs(c, t) ==
            IF t.has
            THEN [c EXCEPT !.baseTs = IF NumberIsFinite(Number(t.val))
                                      THEN ToUint32(Number(t.val)) ELSE PosZero]
            ELSE c
        OpenWriter(st, c) ==
            IF ~c.hasWriter
            THEN [ c |-> [c EXCEPT !.hasWriter = TRUE, !.wroteHeader = TRUE],
                   w |-> emitInfo(writeHeaderPlaceholder(
                                      NewWriter(256, c.utcOffset, ToUint32(c.baseTs))),
                                  [ title |-> "250910_1730_32396E3-BOREY",
                                    unitTime |-> c.baseTs,
                                    hasTimestamp |-> TRUE,
                                    timestamp |-> c.baseTs,
                                    utc_offset |-> UtcOffsetInMinutes(c.utcOffset) ]) ]
            ELSE [st EXCEPT !.c = c]
        Root(st) ==
            IF Len(st.c.stack) = 1
            THEN OpenWriter(st, BaseTs(st.c, FirstAttr(attrs, <<"time_ms", "UTC">>)))
            ELSE st
        Element(s) ==
            IF name \in TELEMETRY_TAGS
            THEN [s EXCEPT !.c.inCsv = TRUE, !.c.csvTag = name, !.c.csvAttrs = attrs,
                           !.c.csvText = << >>]
            ELSE IF name \in EVENT_TAGS
            THEN [s EXCEPT !.c.inEvt = TRUE,
                           !.c.evtName = IF HasAttr(attrs, "name")
                                         THEN Str(GetAttr(attrs, "name")) ELSE name,
                           !.c.evtAttrs = attrs, !.c.evtText = << >>]
            ELSE IF incJso /\ Len(s.c.stack) = 2 /\ name \notin SKIP_TOP_LEVEL
            THEN [s EXCEPT !.c.capJsoActive = TRUE, !.c.capJsoDepth = Len(s.c.stack),
                           !.c.capJsoName = name,
                           !.c.capXml = <<openTagToString(name, attrs)>>]
            ELSE IF s.c.capJsoActive
            THEN [s EXCEPT !.c.capXml = Append(s.c.capXml, openTagToString(name, attrs))]
            ELSE s
    IN  Element(Root([st0 EXCEPT !.c.stack = Append(st0.c.stack, name)]))

DlText(st, txt) ==
    LET Fields(c) ==
            IF /\ Len(c.stack) >= 2
               /\ c.stack[Len(c.stack)] = "fields"
               /\ \E i \in 1..Len(c.stack) : c.stack[i] = "mandala"
               /\ Trim(txt) # << >>
            THEN [c EXCEPT !.fields = MapStr(splitFieldsSmart(Trim(txt)))]
            ELSE c
        CsvText(c) == IF c.inCsv THEN [c EXCEPT !.csvText = c.csvText \o txt] ELSE c
        EvtText(c) == IF c.inEvt THEN [c EXCEPT !.evtText = c.evtText \o txt] ELSE c
        CapText(c) ==
            IF c.capJsoActive /\ txt # << >>
            THEN [c EXCEPT !.capXml = Append(c.capXml, Str(txt))] ELSE c
    IN  [st EXCEPT !.c = CapText(EvtText(CsvText(Fields(st.c))))]

\* The row's loop; the result carries `any`.
RECURSIVE DlRowLoop(_, _, _, _)
DlRowLoop(r, parts, i, lim) ==
    IF i >= lim THEN r
    ELSE IF parts[i + 1] # << >> /\ NumberIsFinite(Number(parts[i + 1]))
    THEN DlRowLoop([w |-> emitValueF32(r.w, i, Number(parts[i + 1])), any |-> TRUE],
                   parts, i + 1, lim)
    ELSE DlRowLoop(r, parts, i + 1, lim)

DlCloseCsv(st) ==
    LET FieldsLen(s) == IF Len(s.c.fields) # 0 THEN Len(s.c.fields) ELSE MAX_FIELDS
        Placeholder(s, r) ==
            [s EXCEPT !.w = IF ~r.any /\ FieldsLen(s) > 0
                            THEN emitValueF32(r.w, 0, NaN) ELSE r.w]
        Row(s, w, parts) ==
            Placeholder(s, DlRowLoop([w |-> w, any |-> FALSE], parts, 0,
                                     Min(Len(parts), FieldsLen(s))))
        Ts(s, ts, parts) ==
            Row(s, emitTs(s.w, ToUint32(IF NumberIsFinite(ts) THEN ts ELSE PosZero)), parts)
        Declared(s, tsAttr, parts) ==
            Ts(DlDeclareFieldsIfNeeded(s, Len(parts)),
               IF tsAttr.has THEN Number(tsAttr.val) ELSE PosZero, parts)
    IN  Declared([st EXCEPT !.c.inCsv = FALSE],
                 FirstAttr(st.c.csvAttrs, <<"t", "ts", "time_ms", "UTC">>),
                 splitTokensLoose(st.c.csvText))

DlCloseEvt(st) ==
    LET Emit(s, w, a, keys) ==
            [s EXCEPT !.w = emitEvt(w, s.c.evtIndex[st.c.evtName],
                                    EvtVals(keys, a, st.c.evtText))]
        Ts(s, a, ts, keys) == Emit(s, emitTs(s.w, ToUint32(ts)), a, keys)
        Event(s, a, keys) ==
            Ts(DlDeclareEventIfNeeded(s, st.c.evtName, keys), a,
               IF HasAttr(a, "t") THEN Number(GetAttr(a, "t")) ELSE PosZero, keys)
    IN  Event([st EXCEPT !.c.inEvt = FALSE], st.c.evtAttrs,
              IF st.c.evtText # << >> /\ Trim(st.c.evtText) # << >>
              THEN Append(EvtKeys(st.c.evtAttrs), "text")
              ELSE EvtKeys(st.c.evtAttrs))

\* ctx.stack.length === ctx.capJsoDepth && name === ctx.capJsoName, with the
\* capture active.
DlCaptureEnds(c, name) ==
    c.capJsoActive /\ Len(c.stack) = c.capJsoDepth /\ name = c.capJsoName

DlCloseCapture(st, name, parseOk) ==
    LET EndCapture(c) ==
            [ c |-> [c EXCEPT !.capJsoActive = FALSE, !.capJsoDepth = 0,
                              !.capJsoName = "", !.capXml = << >>],
              w |-> IF parseOk
                    THEN emitJso(st.w, c.capJsoName, [xml |-> c.capXml],
                                 TRUE, ToUint32(c.baseTs))
                    ELSE st.w ]
        Pushed(c) ==
            IF DlCaptureEnds(c, name)
            THEN EndCapture(c) ELSE [st EXCEPT !.c = c]
    IN  IF ~st.c.capJsoActive THEN st
        ELSE Pushed([st.c EXCEPT !.capXml = Append(st.c.capXml, closeTagToString(name))])

DlCloseTag(st, name, parseOk) ==
    LET Csv(s) == IF s.c.inCsv /\ name = s.c.csvTag THEN DlCloseCsv(s) ELSE s
        Evt(s) == IF s.c.inEvt /\ name \in EVENT_TAGS THEN DlCloseEvt(s) ELSE s
        StackPop(s) == [s EXCEPT !.c.stack = IF s.c.stack = << >> THEN << >>
                                             ELSE SubSeq(s.c.stack, 1, Len(s.c.stack) - 1)]
    IN  StackPop(DlCloseCapture(Evt(Csv(st)), name, parseOk))

DlFinish(st) ==
    IF st.c.hasWriter THEN [st EXCEPT !.w = finalizeToFile(st.w)]
    ELSE [st EXCEPT !.w = finalizeToFile(writeHeaderPlaceholder(
                              NewWriter(256, st.c.utcOffset, ToUint32(st.c.baseTs))))]

-----------------------------------------------------------------------------
(* The input documents.  A document is generated event by event; profile   *)
(* names the family it is drawn from, which fixes the elements that may    *)
(* open under a parent and the text an element may hold.  Text is the      *)
(* leading text of an element.                                             *)

A(key, val) == <<key, val>>

El(name, attrs) == [name |-> name, attrs |-> attrs]

T100 == <<"1", "0", "0">>
T200 == <<"2", "0", "0">>
TimeOk == <<"1", "7", "0", "0", "0", "0", "0", "0", "0", "0", "0", "0", "0">>
TimeOld == <<"9", "0", "0", "0", "0", "0", "0", "0", "0", "0", "0", "0">>
TimeSec == <<"1", "7", "0", "0", "0", "0", "0", "0", "0", "0">>
Roll == <<"r", "o", "l", "l">>
Pitch == <<"p", "i", "t", "c", "h">>
Ev == <<"e", "v">>

FieldsText5 == <<"a", ",", "b", ",", "c", ",", "d", ",", "e">>
FieldsText7 == <<"a", " ", "b", ";", "c", ",", "d", ",", "e", ",", "f", ",", "g">>
FieldsText2 == <<"a", ",", "b">>
RowText3 == <<"1", ",", "2", ",", "3">>
RowText7 == <<"1", ",", ",", "x", ",", "4", ",", "5", ",", "6", ",", "7">>
RowTextBad == <<"x", ",">>

Profiles == {"rows", "events", "meta", "jso"}

TlmElements(prof, parent) ==
    IF prof = "rows" THEN
        CASE parent = "" -> {El("telemetry", << >>)}
          [] parent = "telemetry" -> {El("fields", << >>), El("data", << >>)}
          [] parent = "data" -> { El("D", << >>), El("D", <<A("t", T100)>>),
                                  El("U", << >>), El("fields", << >>) }
          [] parent = "U" -> { El("v", <<A("name", Roll)>>),
                               El("v", <<A("name", Pitch), A("t", T100)>>),
                               El("D", << >>) }
          [] OTHER -> {}
    ELSE IF prof = "events" THEN
        CASE parent = "" -> {El("telemetry", << >>)}
          [] parent = "telemetry" -> {El("data", << >>)}
          [] parent = "data" -> { El("E", <<A("name", Ev), A("t", T100), A("a", <<"1">>)>>),
                                  El("E", <<A("name", Ev), A("b", <<"2">>)>>),
                                  El("E", <<A("a", <<"1">>)>>) }
          [] OTHER -> {}
    ELSE IF prof = "meta" THEN
        CASE parent = "" -> {El("telemetry", << >>), El("Telemetry", << >>), El("log", << >>)}
          [] parent \in {"telemetry", "Telemetry"} ->
                { El("info", <<A("time", TimeOk)>>), El("info", <<A("time", TimeOld)>>),
                  El("info", <<A("time", <<"x">>)>>), El("info", << >>),
                  El("timestamp", <<A("value", IsoDate)>>),
                  El("timestamp", <<A("value", <<"x">>)>>),
                  El("data", << >>), El("D", << >>) }
          [] parent = "log" -> {El("data", << >>)}
          [] parent = "data" -> {El("D", <<A("t", T100)>>)}
          [] OTHER -> {}
    ELSE
        CASE parent = "" -> {El("telemetry", << >>)}
          [] parent = "telemetry" -> {El("data", << >>)}
          [] parent = "data" -> {El("node", << >>), El("D", << >>), El("U", << >>)}
          [] parent = "node" -> {El("node", << >>), El("D", << >>)}
          [] parent = "U" -> {El("v", <<A("name", Roll)>>), El("roll", << >>)}
          [] OTHER -> {}

DlElements(prof, parent) ==
    IF prof = "rows" THEN
        CASE parent = "" -> {El("mandala", << >>)}
          [] parent = "mandala" -> {El("fields", << >>), El("S", <<A("t", T100)>>)}
          [] OTHER -> {}
    ELSE IF prof = "events" THEN
        CASE parent = "" -> {El("mandala", << >>)}
          [] parent = "mandala" ->
                { El("event", <<A("name", Ev), A("t", T100), A("a", <<"1">>)>>),
                  El("event", <<A("name", Ev), A("b", <<"2">>)>>),
                  El("evt", <<A("a", <<"1">>)>>) }
          [] OTHER -> {}
    ELSE IF prof = "meta" THEN
        CASE parent = "" -> { El("mandala", <<A("time_ms", TimeOk)>>),
                              El("mandala", <<A("time_ms", TimeSec)>>),
                              El("mandala", <<A("UTC", <<"x">>)>>),
                              El("S", <<A("t", T100)>>),
                              El("event", <<A("name", Ev)>>) }
          [] parent = "mandala" -> {El("D", <<A("ts", T200)>>), El("mandala", << >>)}
          [] OTHER -> {}
    ELSE
        CASE parent = "" -> {El("mandala", << >>)}
          [] parent = "mandala" -> {El("node", << >>), El("S", <<A("t", T100)>>)}
          [] parent = "node" -> {El("node", << >>)}
          [] OTHER -> {}

Texts(prof, name) ==
    IF prof = "burst" THEN (IF name \in {"data", "mandala"} THEN {<<" ">>} ELSE {}) ELSE
    CASE name = "fields" -> {FieldsText5, FieldsText7, FieldsText2}
      [] name \in {"D", "S"} -> IF prof = "rows" THEN {RowText3, RowText7, RowTextBad}
                                ELSE {RowText3}
      [] name = "v" -> {<<"1">>, <<"2">>}
      [] name = "roll" -> {<<"1">>}
      [] name \in {"E", "event", "evt"} -> {<<"m", "s", "g">>, <<" ">>}
      [] name = "node" -> {<<"n">>}
      [] OTHER -> {}

UtcOffsets == {3600}

Top(stk) == IF stk = << >> THEN "" ELSE stk[Len(stk)].name

\* The base timestamp an element of a telemetry document gives, if any: the
\* time attribute of an <info>, when it is a number, and the value attribute
\* of a <timestamp>, when it parses as a date; stk is the stack of elements
\* open around it.
Offers(stk, el) ==
    IF stk = << >> \/ ToLowerCase(stk[1].name) # "telemetry" THEN << >>
    ELSE IF /\ el.name = "info"
            /\ HasAttr(el.attrs, "time")
            /\ NumberIsFinite(Number(GetAttr(el.attrs, "time")))
    THEN <<[src |-> "info", v |-> MathFloor(Number(GetAttr(el.attrs, "time")))]>>
    ELSE IF /\ el.name = "timestamp"
            /\ HasAttr(el.attrs, "value")
            /\ NumberIsFinite(DateParse(GetAttr(el.attrs, "value")))
    THEN <<[src |-> "timestamp", v |-> MathFloor(DateParse(GetAttr(el.attrs, "value")))]>>
    ELSE << >>

\* String(i) as characters.
RECURSIVE IntToChars(_)
IntToChars(i) ==
    IF i < 10 THEN <<Digits[i + 1]>> ELSE Append(IntToChars(i \div 10), Digits[(i % 10) + 1])

\* The "burst" family: a run of events, each under a name of its own (the
\* n-th element of the document is named e<n>).
BurstElements(knd, parent, n) ==
    IF knd = "telemetry" THEN
        CASE parent = "" -> {El("telemetry", << >>)}
          [] parent = "telemetry" -> IF n = 1 THEN {El("data", << >>)} ELSE {}
          [] parent = "data" -> {El("E", <<A("name", <<"e">> \o IntToChars(n))>>)}
          [] OTHER -> {}
    ELSE
        CASE parent = "" -> {El("mandala", << >>)}
          [] parent = "mandala" -> {El("event", <<A("name", <<"e">> \o IntToChars(n))>>)}
          [] OTHER -> {}

\* The "example" family: the telemetry document
\*   <telemetry><info time="1700000000000"/><fields>a,b,c,d,e</fields>
\*   <data><D t="100">1,2,3,4,5</D><D t="200">1,2,3,4,6</D></data></telemetry>
\* and the documents that are a beginning of it.  Its <fields> and <D>
\* elements always hold their text.
RowText12345 == <<"1", ",", "2", ",", "3", ",", "4", ",", "5">>
RowText12346 == <<"1", ",", "2", ",", "3", ",", "4", ",", "6">>

ExampleElements(parent, n) ==
    CASE n = 0 /\ parent = "" -> {El("telemetry", << >>)}
      [] n = 1 /\ parent = "telemetry" -> {El("info", <<A("time", TimeOk)>>)}
      [] n = 2 /\ parent = "telemetry" -> {El("fields", << >>)}
      [] n = 3 /\ parent = "telemetry" -> {El("data", << >>)}
      [] n = 4 /\ parent = "data" -> {El("D", <<A("t", T100)>>)}
      [] n = 5 /\ parent = "data" -> {El("D", <<A("t", T200)>>)}
      [] OTHER -> {}

ExampleTexts(el) ==
    CASE el.name = "fields" -> {FieldsText5}
      [] el.name = "D" -> IF GetAttr(el.attrs, "t") = T100 THEN {RowText12345}
                          ELSE {RowText12346}
      [] OTHER -> {}

TextsOf(prof, el) == IF prof = "example" THEN ExampleTexts(el) ELSE Texts(prof, el.name)

\* The "nest" family of telemetry documents: rows and uplink bursts inside
\* an element of <data>, rows inside an uplink burst.
NestElements(parent) ==
    CASE parent = "" -> {El("telemetry", << >>)}
      [] parent = "telemetry" -> {El("data", << >>)}
      [] parent = "data" -> {El("node", << >>)}
      [] parent = "node" -> {El("node", << >>), El("D", << >>), El("U", << >>)}
      [] parent = "U" -> {El("v", <<A("name", Roll)>>), El("D", << >>)}
      [] OTHER -> {}

Elements(knd, prof, parent, n) ==
    IF prof = "burst" THEN BurstElements(knd, parent, n)
    ELSE IF prof = "nest" THEN NestElements(parent)
    ELSE IF prof = "example" THEN ExampleElements(parent, n)
    ELSE IF knd = "telemetry" THEN TlmElements(prof, parent)
    ELSE DlElements(prof, parent)

ElementBudget(prof) == IF prof = "burst" THEN MaxBurst ELSE MaxElems

DepthBudget(prof) == IF prof = "nest" THEN MaxNestDepth ELSE MaxDepth

Pop(stk) == SubSeq(stk, 1, Len(stk) - 1)

-----------------------------------------------------------------------------
(* The repack run: the parser's events and the step after its "end".       *)

\* The encoder of the "wide" family of direct use, after n emitField calls.
-----------------------------------------------------------------------------
(* runRepack: the input file, the sniffer and the dispatch.                *)

UpperLetters == <<"A", "B", "C", "D", "E", "F", "G", "H", "I", "J", "K", "L", "M",
                  "N", "O", "P", "Q", "R", "S", "T", "U", "V", "W", "X", "Y", "Z">>

LowerLetters == <<"a", "b", "c", "d", "e", "f", "g", "h", "i", "j", "k", "l", "m",
                  "n", "o", "p", "q", "r", "s", "t", "u", "v", "w", "x", "y", "z">>

\* s.toLowerCase() on a string given by its characters.
LowerChar(c) ==
    IF \E i \in 1..26 : UpperLetters[i] = c
    THEN LowerLetters[CHOOSE i \in 1..26 : UpperLetters[i] = c] ELSE c

toLowerCase(s) == [i \in 1..Len(s) |-> LowerChar(s[i])]

\* s.includes(t) and s.endsWith(t)
includes(s, t) == \E i \in 1..(Len(s) - Len(t) + 1) : SubSeq(s, i, i + Len(t) - 1) = t

endsWith(s, t) == Len(s) >= Len(t) /\ SubSeq(s, Len(s) - Len(t) + 1, Len(s)) = t

\* s.startsWith("?")
startsWithQuestion(s) == s # << >> /\ s[1] = "?"

BaseTelemetry == <<"a", ".", "t", "e", "l", "e", "m", "e", "t", "r", "y">>
BaseTelemetryUpper == <<"A", ".", "T", "E", "L", "E", "M", "E", "T", "R", "Y">>
BaseDatalinkXml == <<"a", ".", "d", "a", "t", "a", "l", "i", "n", "k", ".", "x", "m", "l">>
BaseDatalinkBak == <<"a", ".", "d", "a", "t", "a", "l", "i", "n", "k", ".", "b", "a", "k">>
BaseDatalinkTelemetry == <<"a", ".", "d", "a", "t", "a", "l", "i", "n", "k", ".", "t", "e", "l", "e", "m", "e", "t", "r", "y">>
BasePlain == <<"a", ".", "x", "m", "l">>
BaseTelemetryXml == <<"t", "e", "l", "e", "m", "e", "t", "r", "y", ".", "x", "m", "l">>

BaseNames == {BaseTelemetry, BaseTelemetryUpper, BaseDatalinkXml, BaseDatalinkBak, BaseDatalinkTelemetry, BasePlain, BaseTelemetryXml}

\* The first 64 KiB of a file, with what XMLParser.parse gives for it: the
\* keys of the document object, or an exception.
FileHead(text, keys, throws) == [text |-> text, keys |-> keys, throws |-> throws]

Heads ==
    { FileHead(<<"<", "t", "e", "l", "e", "m", "e", "t", "r", "y", ">">>,
           <<<<"t", "e", "l", "e", "m", "e", "t", "r", "y">>>>, FALSE),
      FileHead(<<"<", "T", "e", "l", "e", "m", "e", "t", "r", "y", ">">>,
           <<<<"T", "e", "l", "e", "m", "e", "t", "r", "y">>>>, FALSE),
      FileHead(<<"<", "m", "a", "n", "d", "a", "l", "a", ">">>,
           <<<<"m", "a", "n", "d", "a", "l", "a">>>>, FALSE),
      FileHead(<<"<", "m", "a", "n", "d", "a", "l", "a", ">", "<", "t", "e", "l", "e", "m", "e", "t", "r", "y", "/", ">">>,
           <<<<"m", "a", "n", "d", "a", "l", "a">>>>, FALSE),
      FileHead(<<"<", "l", "o", "g", ">", "<", "S", ">", "1", "<", "/", "S", ">">>,
           <<<<"l", "o", "g">>>>, FALSE),
      FileHead(<<"<", "l", "o", "g", ">", "<", "d", ">">>,
           <<<<"l", "o", "g">>>>, FALSE),
      FileHead(<<"<", "n", "s", ":", "t", "e", "l", "e", "m", "e", "t", "r", "y", "/", ">">>,
           <<<<"n", "s", ":", "t", "e", "l", "e", "m", "e", "t", "r", "y">>>>, FALSE),
      FileHead(<<"<", "d", "a", "t", "a", "l", "i", "n", "k", "/", ">">>,
           <<<<"d", "a", "t", "a", "l", "i", "n", "k">>>>, FALSE),
      FileHead(<<"<", "x", "M", "a", "n", "d", "a", "l", "a", "/", ">">>,
           <<<<"x", "M", "a", "n", "d", "a", "l", "a">>>>, FALSE),
      FileHead(<<"<", "d", "a", "t", "a", "l", "i", "n", "k", "/", ">", "<", "x", "-", "t", "e", "l", "e", "m", "e", "t", "r", "y", "/", ">">>,
           <<<<"d", "a", "t", "a", "l", "i", "n", "k">>, <<"x", "-", "t", "e", "l", "e", "m", "e", "t", "r", "y">>>>, FALSE),
      FileHead(<<"<", "l", "o", "g", "/", ">">>,
           <<<<"l", "o", "g">>>>, FALSE),
      FileHead(<< >>,
           <<>>, FALSE),
      FileHead(<<"<", "a">>,
           <<>>, TRUE) }

\* The files runRepack may be given.
Files == [exists : BOOLEAN, base : BaseNames, head : Heads]

\* The file of a repack that is started on the ingest itself.
NoFile == [exists |-> TRUE, base |-> << >>, head |-> FileHead(<< >>, << >>, FALSE)]

\* A sniffer that looks at the content before the file name.
sniffXmlKindContentFirst(f) ==
    LET lower == toLowerCase(f.head.text)
        base == toLowerCase(f.base)
    IN  IF includes(lower, <<"<", "t", "e", "l", "e", "m", "e", "t", "r", "y">>) THEN "telemetry"
        ELSE IF includes(lower, <<"<", "m", "a", "n", "d", "a", "l", "a">>) THEN "datalink"
        ELSE IF endsWith(base, <<".", "t", "e", "l", "e", "m", "e", "t", "r", "y">>) THEN "telemetry"
        ELSE IF includes(base, <<".", "d", "a", "t", "a", "l", "i", "n", "k">>) THEN "datalink"
        ELSE "null"

\* sniffXmlKind(filePath): "null" stands for null.
sniffXmlKind(f) ==
    LET lower == toLowerCase(f.head.text)
        base == toLowerCase(f.base)
        kept(k) == ~startsWithQuestion(k)
        keys == SelectSeq(f.head.keys, kept)
        some(P(_)) == \E i \in 1..Len(keys) : P(toLowerCase(keys[i]))
        isTelemetry(k) == includes(k, <<"t", "e", "l", "e", "m", "e", "t", "r", "y">>)
        isDatalink(k) == \/ includes(k, <<"d", "a", "t", "a", "l", "i", "n", "k">>)
                         \/ includes(k, <<"m", "a", "n", "d", "a", "l", "a">>)
    IN  IF endsWith(base, <<".", "t", "e", "l", "e", "m", "e", "t", "r", "y">>) THEN "telemetry"
        ELSE IF \/ endsWith(base, <<".", "d", "a", "t", "a", "l", "i", "n", "k", ".", "x", "m", "l">>)
                \/ includes(base, <<".", "d", "a", "t", "a", "l", "i", "n", "k">>) THEN "datalink"
        ELSE IF includes(lower, <<"<", "t", "e", "l", "e", "m", "e", "t", "r", "y">>) THEN "telemetry"
        ELSE IF \/ includes(lower, <<"<", "m", "a", "n", "d", "a", "l", "a">>)
                \/ includes(lower, <<"<", "s", ">">>)
                \/ includes(lower, <<"<", "d", ">">>) THEN "datalink"
        ELSE IF f.head.throws THEN "null"
        ELSE IF some(isTelemetry) THEN "telemetry"
        ELSE IF some(isDatalink) THEN "datalink"
        ELSE "null"

\* createRepackRunner(kind): the ingest it returns.
createRepackRunner(k) ==
    CASE k = "telemetry" -> "telemetry"
      [] k = "datalink" -> "datalink"
      [] OTHER -> "throws"

RECURSIVE DeclareWide(_, _)
DeclareWide(w, n) ==
    IF n = 0 THEN w ELSE emitField(DeclareWide(w, n - 1), "f" \o IntToStr(n - 1))

NoWriter == NewWriter(0, 0, PosZero)

NoCall == [op |-> "none", idx |-> 0, v |-> PosZero, uplink |-> FALSE]

\* The state in which a run begins: at runRepack (at = "start") or at an
\* ingest or an encoder called directly (at = "parse").
\* The startTimestampMs64 the encoder of direct use is constructed with: in
\* the "info" family one that fits 32 bits (1700000000) and one that does not.
StartsOf(prof) == IF prof = "info" THEN {Number(TimeSec), fileMtimeMs} ELSE {fileMtimeMs}

Begin(knd, prof, f, at) ==
    /\ file = f
    /\ kind = knd
    /\ profile = prof
    /\ includeJso = (profile \in {"jso", "nest"})
    /\ pc = at
    /\ xml = << >>
    /\ sawRoot = FALSE
    /\ lastEv = "none"
    /\ nElems = 0
    /\ \E utc \in UtcOffsets, start \in StartsOf(prof) :
          /\ ctx = TlmCtxInit(utc)
          /\ dctx = DlCtxInit(utc)
          /\ writer = IF kind # "api" THEN NoWriter
                      ELSE IF profile = "info"
                      THEN NewWriter(1, utc, start)
                      ELSE IF profile = "wide"
                      THEN DeclareWide(writeHeaderPlaceholder(NewWriter(1, utc, fileMtimeMs)),
                                       WideFields)
                      ELSE IF profile = "raw"
                      THEN writeHeaderPlaceholder(NewWriter(1, utc, fileMtimeMs))
                      ELSE NewWriter(1, utc, fileMtimeMs)
    /\ call = NoCall
    /\ nCalls = 0
    /\ accepted = EmptyMap
    /\ offered = << >>
    /\ warned = FALSE
    /\ inputTs = [last |-> PosZero, sorted |-> TRUE]
    /\ capStart = 0

Start(knd, prof) == Begin(knd, prof, NoFile, "parse")

Init ==
    \E knd \in {"telemetry", "datalink", "api"} :
        \E prof \in (IF knd = "api" THEN {"api"}
                     ELSE IF knd = "telemetry" THEN Profiles \cup {"example"}
                     ELSE Profiles) : Start(knd, prof)

InitBurst == \E knd \in {"telemetry", "datalink"} : Start(knd, "burst")

InitNest == Start("telemetry", "nest")

InitWide == Start("api", "wide")

InitRaw == Start("api", "raw")

InitInfo == Start("api", "info")

InitRun == \E f \in Files : Begin("none", "run", f, "start")

\* The ingest that runs has a sub-tree capture open.
CaptureActive(c, d) == IF kind = "telemetry" THEN c.capJsoActive ELSE d.capJsoActive

OpenTag ==
    /\ pc = "parse"
    /\ kind # "api"
    /\ nElems < ElementBudget(profile)
    /\ Len(xml) < DepthBudget(profile)
    /\ xml = << >> => ~sawRoot
    /\ \E el \in Elements(kind, profile, Top(xml), nElems) :
          /\ xml' = Append(xml, el)
          /\ offered' = IF kind = "telemetry" /\ writer.out = << >>
                        THEN offered \o Offers(xml, el) ELSE offered
          /\ IF kind = "telemetry"
             THEN LET r == TlmOpenTag([c |-> ctx, w |-> writer], includeJso, el.name, el.attrs)
                  IN  ctx' = r.c /\ writer' = r.w /\ dctx' = dctx
             ELSE LET r == DlOpenTag([c |-> dctx, w |-> writer], includeJso, el.name, el.attrs)
                  IN  dctx' = r.c /\ writer' = r.w /\ ctx' = ctx
    /\ sawRoot' = TRUE
    /\ lastEv' = "open"
    /\ nElems' = nElems + 1
    /\ warned' = FALSE
    /\ capStart' = IF ~CaptureActive(ctx, dctx) /\ CaptureActive(ctx', dctx')
                   THEN Len(xml') ELSE capStart
    /\ UNCHANGED <<inputTs, file, kind, profile, includeJso, pc, call, nCalls, accepted>>

Text ==
    /\ pc = "parse"
    /\ kind # "api"
    /\ xml # << >>
    /\ lastEv = "open"
    /\ \E txt \in TextsOf(profile, xml[Len(xml)]) :
          IF kind = "telemetry"
          THEN LET r == TlmText([c |-> ctx, w |-> writer], txt)
               IN  ctx' = r.c /\ writer' = r.w /\ dctx' = dctx
          ELSE LET r == DlText([c |-> dctx, w |-> writer], txt)
               IN  dctx' = r.c /\ writer' = r.w /\ ctx' = ctx
    /\ lastEv' = "text"
    /\ warned' = FALSE
    /\ UNCHANGED <<capStart, inputTs, file, kind, profile, includeJso, pc, xml, sawRoot, nElems, call, nCalls, accepted,
                   offered>>

\* The element that closes is a row, an event or a child of <U> of the
\* ingest that runs: its handler gives the encoder a timestamp.
IsTimed(el) ==
    IF kind = "telemetry"
    THEN \/ ctx.inD /\ el.name = "D"
         \/ ctx.inE /\ el.name = "E"
         \/ ctx.inU /\ el.name \notin {"D", "E", "U"}
    ELSE \/ dctx.inCsv /\ el.name = dctx.csvTag
         \/ dctx.inEvt /\ el.name \in EVENT_TAGS

\* The timestamp attribute of a row, an event or a child of <U>, as the
\* handlers read it: 0 when it is absent or not a number.
ElementTs(el) ==
    LET t == IF kind = "datalink" /\ el.name \notin EVENT_TAGS
             THEN FirstAttr(el.attrs, <<"t", "ts", "time_ms", "UTC">>)
             ELSE FirstAttr(el.attrs, <<"t">>)
        n == IF t.has THEN Number(t.val) ELSE PosZero
    IN  IF NumberIsFinite(n) THEN n ELSE PosZero

CloseTag ==
    /\ pc = "parse"
    /\ kind # "api"
    /\ xml # << >>
    /\ ~(profile = "example" /\ lastEv = "open" /\ TextsOf(profile, xml[Len(xml)]) # {})
    /\ \E parseOk \in (IF ctx.capJsoActive \/ dctx.capJsoActive THEN BOOLEAN ELSE {TRUE}),
          normalized \in (IF ctx.capJsoActive THEN BOOLEAN ELSE {FALSE}) :
          IF kind = "telemetry"
          THEN LET r == TlmCloseTag([c |-> ctx, w |-> writer], Top(xml), parseOk, normalized)
               IN  /\ ctx' = r.c /\ writer' = r.w /\ dctx' = dctx
                   /\ warned' = (~parseOk /\ TlmCaptureEnds(ctx, Top(xml)))
          ELSE LET r == DlCloseTag([c |-> dctx, w |-> writer], Top(xml), parseOk)
               IN  /\ dctx' = r.c /\ writer' = r.w /\ ctx' = ctx
                   /\ warned' = (~parseOk /\ DlCaptureEnds(dctx, Top(xml)))
    /\ xml' = Pop(xml)
    /\ lastEv' = "close"
    /\ inputTs' = IF IsTimed(xml[Len(xml)])
                  THEN [ last |-> ElementTs(xml[Len(xml)]),
                         sorted |-> inputTs.sorted
                                    /\ ~NumLess(ElementTs(xml[Len(xml)]), inputTs.last) ]
                  ELSE inputTs
    /\ capStart' = IF CaptureActive(ctx, dctx) /\ ~CaptureActive(ctx', dctx')
                   THEN 0 ELSE capStart
    /\ UNCHANGED <<file, kind, profile, includeJso, pc, sawRoot, nElems, call, nCalls, accepted,
                   offered>>

\* A finish block that also runs after the promise was rejected.
FinishAfterError ==
    /\ pc \in {"parse", "failed"}
    /\ kind # "api"
    /\ xml = << >> \/ pc = "failed"
    /\ IF kind = "telemetry"
       THEN writer' = TlmFinish([c |-> ctx, w |-> writer]).w
       ELSE writer' = DlFinish([c |-> dctx, w |-> writer]).w
    /\ pc' = "done"
    /\ warned' = FALSE
    /\ UNCHANGED <<capStart, inputTs, file, kind, profile, includeJso, xml, sawRoot, lastEv, nElems, ctx, dctx,
                   call, nCalls, accepted, offered>>

Finish ==
    /\ pc = "parse"
    /\ kind # "api"
    /\ xml = << >>
    /\ IF kind = "telemetry"
       THEN writer' = TlmFinish([c |-> ctx, w |-> writer]).w
       ELSE writer' = DlFinish([c |-> dctx, w |-> writer]).w
    /\ pc' = "done"
    /\ warned' = FALSE
    /\ UNCHANGED <<capStart, inputTs, file, kind, profile, includeJso, xml, sawRoot, lastEv, nElems, ctx, dctx,
                   call, nCalls, accepted, offered>>

\* stream.on("error", reject) and parser.on("error", reject): the promise the
\* ingest awaits is rejected, the ingest throws and its finish block never
\* runs.  Whatever the handlers write after that is not modelled; only
\* finalizeToFile writes a stop byte.
ParserError ==
    /\ pc = "parse"
    /\ kind # "api"
    /\ pc' = "failed"
    /\ warned' = FALSE
    /\ UNCHANGED <<capStart, inputTs, file, kind, profile, includeJso, xml, sawRoot, lastEv, nElems, ctx, dctx,
                   writer, call, nCalls, accepted, offered>>

(* Direct use of the encoder: a caller holding an ApxTlmWriter calls its   *)
(* methods in any order.                                                   *)

ApiValues == {FromInt(1), NaN, PosZero, NegZero}

ApiIndexes == 0..1

\* The "wide" family of direct use: an encoder with WideFields fields
\* declared, calls over all of its indexes, and calls over values around the
\* limits of the half-float format.
WideValues ==
    { FromInt(1), FromInt(-3), Norm(FALSE, 1, -1), FromInt(2049), FromInt(65504),
      FromInt(65520), FromInt(65536), Norm(FALSE, 1, -14), Norm(FALSE, 1, -15),
      Norm(FALSE, 3, -16), Norm(FALSE, 1, -24), Norm(FALSE, 1, -25),
      Norm(FALSE, 1025, -10), Norm(FALSE, 2049, -11), Norm(FALSE, 8388609, -23),
      Norm(FALSE, 1073741825, -30), PosZero, NegZero, NaN, PosInf, NegInf }

ApiArgs(prof) ==
    IF prof = "wide"
    THEN {[idx |-> i, v |-> FromInt(1), uplink |-> u] : i \in 0..(WideFields - 1), u \in BOOLEAN}
         \cup {[idx |-> 0, v |-> x, uplink |-> FALSE] : x \in WideValues}
    ELSE {[idx |-> i, v |-> x, uplink |-> u] : i \in ApiIndexes, x \in ApiValues, u \in BOOLEAN}

CallBudget(prof) ==
    IF prof = "wide" THEN MaxWideCalls
    ELSE IF prof = "raw" THEN MaxRawCalls
    ELSE IF prof = "info" THEN MaxInfoCalls
    ELSE MaxCalls

\* The blobs of the "raw" family: lengths around the chunk size, each as a
\* buffer deflate cannot shrink (stored blocks: five more bytes per 65535,
\* and six) and as one it shrinks to a quarter.
RawLengths == {0, 10, 65535, 65536, 131070, 131071, 200000}

RawBlobs ==
    {[len |-> n, comp |-> n + 5 * ((n \div 65535) + 1) + 6] : n \in RawLengths}
    \cup {[len |-> n, comp |-> (n \div 4) + 6] : n \in RawLengths}

ApiCall(op, idx, v, uplink, w) ==
    /\ pc = "parse"
    /\ kind = "api"
    /\ nCalls < CallBudget(profile)
    /\ writer' = w
    /\ call' = [op |-> op, idx |-> idx, v |-> v, uplink |-> uplink]
    /\ nCalls' = nCalls + 1
    /\ UNCHANGED <<capStart, inputTs, file, kind, profile, includeJso, pc, xml, sawRoot, lastEv, nElems, ctx, dctx,
                   offered, warned>>

ApiWriteHeader ==
    /\ ApiCall("writeHeaderPlaceholder", 0, PosZero, FALSE, writeHeaderPlaceholder(writer))
    /\ UNCHANGED accepted

ApiEmitField ==
    /\ ApiCall("emitField", 0, PosZero, FALSE,
               emitField(writer, "f" \o IntToStr(writer.declaredFields)))
    /\ UNCHANGED accepted

ApiEmitTs ==
    /\ ApiCall("emitTs", 0, FromInt(100), FALSE, emitTs(writer, FromInt(100)))
    /\ UNCHANGED accepted

ApiEmitNumber ==
    \E a \in ApiArgs(profile) :
        /\ ApiCall("emitNumber", a.idx, a.v, a.uplink, emitNumber(writer, a.idx, a.v, a.uplink))
        /\ accepted' = IF a.idx < writer.declaredFields
                       THEN MapSet(accepted, <<a.uplink, a.idx>>, a.v) ELSE accepted

\* The info objects of the "info" family: without a timestamp, and with one
\* that fits 32 bits or does not.
InfoObjects ==
    {[hasTimestamp |-> FALSE, timestamp |-> PosZero, utc_offset |-> FromInt(o)] : o \in {0, 60}}
    \cup {[hasTimestamp |-> TRUE, timestamp |-> t, utc_offset |-> FromInt(o)] :
            t \in {FromInt(5), Number(TimeOk)}, o \in {0, 60}}

\* emitInfo(info); call.idx is 1 when info has a timestamp, call.v holds it.
ApiEmitInfo ==
    \E info \in InfoObjects :
        /\ profile = "info"
        /\ ApiCall("emitInfo", IF info.hasTimestamp THEN 1 ELSE 0, info.timestamp, FALSE,
                   emitInfo(writer, info))
        /\ UNCHANGED accepted

\* emitRaw("blob", data) and emitRaw("blob", data, 100); call.idx holds
\* data.length.
ApiEmitRaw ==
    \E d \in RawBlobs, hasTs \in BOOLEAN :
        /\ ApiCall("emitRaw", d.len, PosZero, FALSE,
                   emitRaw(writer, "blob", d, hasTs, FromInt(100)))
        /\ UNCHANGED accepted

ApiFinalize ==
    /\ pc = "parse"
    /\ kind = "api"
    /\ writer' = finalizeToFile(writer)
    /\ call' = [NoCall EXCEPT !.op = "finalizeToFile"]
    /\ pc' = "done"
    /\ UNCHANGED <<capStart, inputTs, file, kind, profile, includeJso, xml, sawRoot, lastEv, nElems, ctx, dctx,
                   nCalls, accepted, offered, warned>>

\* A runRepack that hands a file the sniffer could not classify to the
\* datalink ingest.
RunRepackUnchecked ==
    /\ pc = "start"
    /\ IF ~file.exists
       THEN pc' = "failed" /\ kind' = kind
       ELSE LET k == sniffXmlKind(file)
            IN  kind' = (IF k = "null" THEN "datalink" ELSE k) /\ pc' = "parse"
    /\ UNCHANGED <<capStart, inputTs, file, profile, includeJso, xml, sawRoot, lastEv, nElems, ctx, dctx,
                   writer, call, nCalls, accepted, offered, warned>>

\* runRepack up to the call of the ingest: it throws when the file does not
\* exist, when the sniffer returns null and when createRepackRunner throws.
RunRepack ==
    /\ pc = "start"
    /\ IF ~file.exists
       THEN pc' = "failed" /\ kind' = kind
       ELSE LET k == sniffXmlKind(file)
                run == createRepackRunner(k)
            IN  IF k = "null" \/ run = "throws"
                THEN pc' = "failed" /\ kind' = kind
                ELSE pc' = "parse" /\ kind' = run
    /\ UNCHANGED <<capStart, inputTs, file, profile, includeJso, xml, sawRoot, lastEv, nElems, ctx, dctx,
                   writer, call, nCalls, accepted, offered, warned>>

NextRun == RunRepack

SpecRun == InitRun /\ [][NextRun]_vars

NextParse ==
    \/ OpenTag
    \/ Text
    \/ CloseTag
    \/ Finish

SpecBurst == InitBurst /\ [][NextParse]_vars

SpecNest == InitNest /\ [][NextParse]_vars

NextWide ==
    \/ ApiEmitTs
    \/ ApiEmitNumber
    \/ ApiFinalize

SpecWide == InitWide /\ [][NextWide]_vars

NextRaw ==
    \/ ApiEmitRaw
    \/ ApiFinalize

SpecRaw == InitRaw /\ [][NextRaw]_vars

NextInfo ==
    \/ ApiWriteHeader
    \/ ApiEmitInfo
    \/ ApiFinalize

SpecInfo == InitInfo /\ [][NextInfo]_vars

Next ==
    \/ OpenTag
    \/ Text
    \/ CloseTag
    \/ Finish
    \/ ParserError
    \/ ApiWriteHeader
    \/ ApiEmitField
    \/ ApiEmitTs
    \/ ApiEmitNumber
    \/ ApiFinalize

Spec == Init /\ [][Next]_vars

Out == writer.out

-----------------------------------------------------------------------------
(* Properties of the output.                                               *)

Repack == kind \in {"telemetry", "datalink"}

Completed == Repack /\ pc = "done"

\* The positions of the records of kind k in the output.
Where(k) == {i \in 1..Len(Out) : Out[i].k = k}

IsInfo(r) == r.k = "jso" /\ r.name = "info"

IsDeclaration(r) == r.k \in {"field", "evtid"}

IsFieldRecord(r) == r.k = "field"

\* The field declarations of the output, in order.
FieldRecords == SelectSeq(Out, IsFieldRecord)

FieldsBefore(i) == Cardinality({j \in 1..(i - 1) : Out[j].k = "field"})

\* The evtid records before position i, and the index a reader gives to the
\* one at position j: the number of evtid records before it.
EvtIdsBefore(out, i) == {j \in 1..(i - 1) : out[j].k = "evtid"}

SchemaIndex(out, j) == Cardinality(EvtIdsBefore(out, j))

\* The name of an event element: its name attribute, else "event" in the
\* telemetry dialect and the tag in the datalink dialect.
EventNameOf(el) ==
    IF HasAttr(el.attrs, "name") THEN Str(GetAttr(el.attrs, "name"))
    ELSE IF kind = "telemetry" THEN "event" ELSE el.name

\* C1 (state part): in a repack the header is the first record of the output,
\* a completed repack has written it, and no output holds two headers.
HeaderFirstOnce ==
    /\ Repack /\ Out # << >> => Out[1].k = "hdr"
    /\ Completed => Out # << >>
    /\ Cardinality(Where("hdr")) <= 1

\* C1 (step part): a call of writeHeaderPlaceholder on an encoder whose
\* output already holds the header leaves the output as it was.
SecondHeaderCallWritesNothing ==
    (call'.op = "writeHeaderPlaceholder" /\ nCalls' = nCalls + 1 /\ Where("hdr") # {})
        => writer'.out = writer.out

\* C1: the header is the first thing written by either ingest, it is written
\* exactly once, and a second call to writeHeaderPlaceholder writes nothing.
C1_HeaderFirstWrittenOnce == []HeaderFirstOnce /\ [][SecondHeaderCallWritesNothing]_vars

\* A second writeHeaderPlaceholder call: the header and a timestamp marker are
\* in the output and the last call made is writeHeaderPlaceholder.
C1_Witness ==
    /\ call.op = "writeHeaderPlaceholder"
    /\ Len(Out) = 2
    /\ Out[1].k = "hdr"
    /\ Out[2].k = "ts"

\* C2: a completed repack wrote exactly one info record, as the first record
\* after the header and before every field and event declaration.
C2_OneInfoAfterHeader ==
    Completed =>
        /\ Len(Out) >= 2
        /\ IsInfo(Out[2])
        /\ Cardinality({i \in 1..Len(Out) : IsInfo(Out[i])}) = 1
        /\ \A i \in 1..Len(Out) : IsDeclaration(Out[i]) => i > 2

\* C3: the stop byte is written by the completion of a repack and by nothing
\* before it, exactly once, and it is the last record of the output.
C3_StopOnceLast ==
    Repack =>
        IF pc = "done"
        THEN Out # << >> /\ Where("stop") = {Len(Out)}
        ELSE Where("stop") = {}

\* A completed datalink repack whose output holds samples.
C3_Witness ==
    /\ kind = "datalink"
    /\ pc = "done"
    /\ Where("val") # {}
    /\ Out[Len(Out)].k = "stop"

\* C4: every sample record carries a field index smaller than the number of
\* field declarations written before it.
C4_SampleIndexDeclared == \A i \in Where("val") : Out[i].idx < FieldsBefore(i)

\* A telemetry run in which a <fields> list replaced the field names after
\* the declaration and a row wider than the declared fields was closed.
C4_Witness ==
    /\ kind = "telemetry"
    /\ ctx.fieldsDeclared
    /\ Len(ctx.fields) > writer.declaredFields
    /\ ~ctx.inD
    /\ ctx.currentD_text = RowText7
    /\ Where("val") # {}

\* C5: in the telemetry ingest the index kept for a field name is the
\* zero-based position of that name's declaration among the field
\* declarations of the output, and the encoder has counted as many
\* declarations as the ingest has given indexes.
C5_IndexIsDeclarationPosition ==
    kind = "telemetry" =>
        /\ \A nm \in DOMAIN ctx.nameToIndex :
              /\ ctx.nameToIndex[nm] < Len(FieldRecords)
              /\ FieldRecords[ctx.nameToIndex[nm] + 1].name = nm
        /\ writer.declaredFields = Cardinality(DOMAIN ctx.nameToIndex)

\* C6: in the telemetry ingest no field name is declared twice in the output.
C6_FieldNamesUnique ==
    kind = "telemetry" =>
        \A i \in Where("field") : \A j \in Where("field") :
            i # j => Out[i].name # Out[j].name

\* C7: in either ingest the number of field declarations written, which is
\* the encoder's declaredFields, never exceeds the cap MAX_FIELDS.
C7_DeclaredFieldsCapped ==
    Repack =>
        /\ writer.declaredFields <= MAX_FIELDS
        /\ Cardinality(Where("field")) <= MAX_FIELDS

\* C8 (one step): when the close of an event element appends an evt record,
\* an evtid record of the event's name was written before it and the evt
\* record carries the index of that evtid record.
EvtIndexIsOfItsName ==
    (/\ Repack
     /\ xml # << >>
     /\ Len(writer'.out) > Len(writer.out)
     /\ writer'.out[Len(writer'.out)].k = "evt")
    => LET out == writer'.out
           i == Len(out)
           named == {j \in EvtIdsBefore(out, i) : out[j].name = EventNameOf(xml[Len(xml)])}
       IN  /\ named # {}
           /\ \A j \in named : SchemaIndex(out, j) = out[i].idx

\* C8: every evt record carries a schema index assigned by an earlier evtid
\* record, the one declared for the event's name.
C8_EvtIndexDeclared == [][EvtIndexIsOfItsName]_vars

\* C9: every evt record holds as many values as the evtid record of its
\* schema index holds keys.
C9_EvtValuesParallel ==
    Repack =>
        \A i \in Where("evt") :
            \E j \in EvtIdsBefore(Out, i) :
                /\ SchemaIndex(Out, j) = Out[i].idx
                /\ Len(Out[i].vals) = Len(Out[j].keys)

\* C10 (one step): an emitNumber call with a declared index writes nothing
\* when its value is the last one accepted for that index and direction
\* (NaN equal to NaN, -0 different from +0); otherwise it appends a sample of
\* that index and value to the output.
EmitNumberFilter ==
    (/\ call'.op = "emitNumber"
     /\ nCalls' = nCalls + 1
     /\ call'.idx < writer.declaredFields)
    => IF /\ <<call'.uplink, call'.idx>> \in DOMAIN accepted
          /\ accepted[<<call'.uplink, call'.idx>>] = call'.v
       THEN writer'.out = writer.out
       ELSE /\ Len(writer'.out) = Len(writer.out) + (IF call'.uplink THEN 2 ELSE 1)
            /\ SubSeq(writer'.out, 1, Len(writer.out)) = writer.out
            /\ writer'.out[Len(writer'.out)].k = "val"
            /\ writer'.out[Len(writer'.out)].idx = call'.idx
            /\ writer'.out[Len(writer'.out)].v = call'.v
            /\ call'.uplink => writer'.out[Len(writer'.out) - 1].k = "dir"

DirectionPartition ==
    (/\ call'.op = "emitNumber"
     /\ nCalls' = nCalls + 1)
    => /\ call'.uplink => writer'.lastDown = writer.lastDown
       /\ ~call'.uplink => writer'.lastUp = writer.lastUp
       /\ (/\ call'.idx < writer.declaredFields
           /\ <<call'.uplink, call'.idx>> \notin DOMAIN accepted)
          => /\ Len(writer'.out) > Len(writer.out)
             /\ writer'.out[Len(writer'.out)].k = "val"
             /\ writer'.out[Len(writer'.out)].idx = call'.idx

\* C11: the value cache is partitioned by direction.
C11_CachePartitionedByDirection == [][DirectionPartition]_vars

\* A downlink sample and then the first uplink sample of the same field with
\* the same value: the uplink sample is written.
C11_Witness ==
    /\ call.op = "emitNumber"
    /\ call.uplink
    /\ Len(Out) = 4
    /\ Out[1].k = "field"
    /\ Out[2].k = "val" /\ Out[2].idx = call.idx /\ Out[2].v = call.v
    /\ Out[3].k = "dir"
    /\ Out[4].k = "val" /\ Out[4].idx = call.idx /\ Out[4].v = call.v

\* The position of the last ts or value record before position i of the
\* output, 0 when there is none.
LastMarkBefore(i) ==
    LET marks == {j \in 1..(i - 1) : Out[j].k \in {"ts", "val"}}
    IN  IF marks = {} THEN 0 ELSE CHOOSE j \in marks : \A m \in marks : m <= j

\* C12: the first value record after a ts record, whatever records other
\* than values lie between the two, has the two-byte long framing; and right
\* after a ts record the encoder's last-index cache is "none".
C12_LongFramingAfterTs ==
    /\ \A i \in Where("val") :
          (LastMarkBefore(i) # 0 /\ Out[LastMarkBefore(i)].k = "ts") => Out[i].form = "long"
    /\ (Out # << >> /\ Out[Len(Out)].k = "ts") => writer.lastWidx = -1

\* A value record, a ts record and then a value record whose index is within
\* 8 past the index written before the ts: it has the long framing.
C12_Witness ==
    \E i \in Where("val") :
        /\ LastMarkBefore(i) # 0
        /\ Out[LastMarkBefore(i)].k = "ts"
        /\ LastMarkBefore(LastMarkBefore(i)) # 0
        /\ Out[LastMarkBefore(LastMarkBefore(i))].k = "val"
        /\ Out[i].idx - Out[LastMarkBefore(LastMarkBefore(i))].idx - 1 \in 0..7
        /\ Out[i].form = "long"

\* The index of the last value record written since the last ts record, -1
\* when there is none: what the output says last_index is.
LastIndexOf(out) ==
    LET marks == {j \in 1..Len(out) : out[j].k \in {"ts", "val"}}
        last == CHOOSE j \in marks : \A m \in marks : m <= j
    IN  IF marks = {} THEN -1
        ELSE IF out[last].k = "ts" THEN -1
        ELSE out[last].idx

\* C13 (state part): the encoder's last index is the index of the last value
\* record written since the last ts record, and "none" when there is none.
LastIndexTracksOutput == writer.lastWidx = LastIndexOf(Out)

\* C13 (one step): an emitNumber call that writes a value record writes it in
\* the one-byte form, carrying delta, exactly when last_index >= 0 and
\* delta = field_index - last_index - 1 lies in 0..7, and in the long form,
\* carrying the index, otherwise; last_index becomes field_index.
FramingOfSample ==
    (/\ call'.op = "emitNumber"
     /\ nCalls' = nCalls + 1
     /\ Len(writer'.out) > Len(writer.out))
    => LET rec == writer'.out[Len(writer'.out)]
           delta == call'.idx - LastIndexOf(writer.out) - 1
       IN  /\ rec.k = "val"
           /\ IF LastIndexOf(writer.out) >= 0 /\ delta \in 0..7
              THEN rec.form = "opt8" /\ rec.delta = delta
              ELSE rec.form = "long" /\ rec.idx = call'.idx
           /\ writer'.lastWidx = call'.idx

\* C13: opt8 framing exactly when a value record has been written since the
\* last ts marker and the new index is 1..8 past it; the long form otherwise.
C13_Opt8ExactlyWhenDeltaInRange == []LastIndexTracksOutput /\ [][FramingOfSample]_vars

\* Samples on index 5 and then on index 7, no ts between: the second has the
\* one-byte form with delta 1.
C13_Witness ==
    /\ call.op = "emitNumber"
    /\ call.idx = 7
    /\ Len(Out) >= 2
    /\ Out[Len(Out) - 1].k = "val" /\ Out[Len(Out) - 1].idx = 5
    /\ Out[Len(Out)].k = "val"
    /\ Out[Len(Out)].form = "opt8"
    /\ Out[Len(Out)].delta = 1

\* The 16 bits the writer of an f16 sample puts in the file: chooseFloatSpec
\* returns writeUInt16LE(h) with h = f32ToF16Bits(val).
F16Written(rec) == f32ToF16Bits(rec.v)

\* C14 (one step): when an emitNumber call writes a sample as f16, the 16
\* bits written decode (f16ToF32Approx) to the value that was passed, equal
\* under Object.is; a sample not written as f16 is written as f32.
F16SampleDecodesToOriginal ==
    (/\ call'.op = "emitNumber"
     /\ nCalls' = nCalls + 1
     /\ Len(writer'.out) > Len(writer.out))
    => LET rec == writer'.out[Len(writer'.out)]
       IN  /\ rec.k = "val"
           /\ rec.dspec \in {"f16", "f32"}
           /\ rec.dspec = "f16" =>
                 /\ rec.v = call'.v
                 /\ F16Written(rec) \in 0..65535
                 /\ f16ToF32Approx(F16Written(rec)) = call'.v

\* C14: every f16 sample decodes to the original value, bit for bit; every
\* other sample is an f32.
C14_F16RoundTrips == [][F16SampleDecodesToOriginal]_vars

\* A sample of 65504, the largest half-float, written as f16, and before it
\* a sample of 2049, which no half-float holds, written as f32.
C14_Witness ==
    /\ call.op = "emitNumber"
    /\ call.v = FromInt(65504)
    /\ Len(Out) = WideFields + 3
    /\ Out[Len(Out)].k = "val" /\ Out[Len(Out)].dspec = "f16"
    /\ F16Written(Out[Len(Out)]) = 31743
    /\ Out[Len(Out) - 1].k = "val" /\ Out[Len(Out) - 1].v = FromInt(2049)
    /\ Out[Len(Out) - 1].dspec = "f32"

\* f16_to_f32_approx(f32_to_f16_bits(v)) is v under Object.is.  A double that
\* single precision does not hold is not equal to any half-float.
RoundTrips(v) == F32Exact(v) /\ ObjectIs(f16ToF32Approx(f32ToF16Bits(v)), v)

\* C15 (one step): an emitNumber call that writes a sample writes it as f16
\* if and only if the value round-trips through the half-float codec under
\* Object.is, non-finite values included.
F16IffRoundTrips ==
    (/\ call'.op = "emitNumber"
     /\ nCalls' = nCalls + 1
     /\ Len(writer'.out) > Len(writer.out))
    => (writer'.out[Len(writer'.out)].dspec = "f16" <=> RoundTrips(call'.v))

\* C15: the encoder chooses f16 exactly for the values that round-trip, so
\* NaN and the infinities, which do, are written as f16.
C15_F16IffRoundTrips == [][F16IffRoundTrips]_vars

\* The record at position i of the output is an f16 sample of the integer n
\* on field index idx.
IsSampleF16(i, idx, n) ==
    /\ Out[i].k = "val"
    /\ Out[i].idx = idx
    /\ Out[i].v = FromInt(n)
    /\ Out[i].dspec = "f16"

\* C16: the telemetry document <telemetry><info time="1700000000000"/>
\* <fields>a,b,c,d,e</fields><data><D t="100">1,2,3,4,5</D>
\* <D t="200">1,2,3,4,6</D></data></telemetry> gives exactly: the header with
\* start timestamp 1700000000000, the info record, the field declarations
\* a, b, c, d, e, ts=100, five f16 samples 1..5 on indexes 0..4, ts=200, one
\* sample 6 on index 4, and the stop byte.
C16_ExampleOutput ==
    (Completed /\ profile = "example" /\ nElems = 6)
    => /\ Len(Out) = 16
       /\ Out[1].k = "hdr" /\ Out[1].ts = Number(TimeOk)
       /\ IsInfo(Out[2])
       /\ \A i \in 1..5 : Out[2 + i].k = "field"
                          /\ Out[2 + i].name = <<"a", "b", "c", "d", "e">>[i]
       /\ Out[8].k = "ts" /\ Out[8].ms = FromInt(100)
       /\ \A i \in 1..5 : IsSampleF16(8 + i, i - 1, i)
       /\ Out[14].k = "ts" /\ Out[14].ms = FromInt(200)
       /\ IsSampleF16(15, 4, 6)
       /\ Out[16].k = "stop"

\* The whole document has been read and the output is complete.
C16_Witness ==
    /\ Completed
    /\ profile = "example"
    /\ nElems = 6
    /\ ctx.fields = <<"a", "b", "c", "d", "e">>
    /\ ctx.currentD_text = RowText12346
    /\ Len(Out) = 16

\* normalizeEpochMs(n, inputFile) of the built bundle: a value in
\* [1e9, 1e12) is seconds and becomes milliseconds; a value that is not a
\* number, or is before 2000 after that, becomes the file's modification time.
normalizeEpochMs(n) ==
    IF ~NumberIsFinite(n) THEN fileMtimeMs
    ELSE LET v == IF NumLess(n, Norm(FALSE, 244140625, 12)) /\ ~NumLess(n, Norm(FALSE, 1953125, 9))
                  THEN Norm(n.neg, n.m * 125, n.e + 3)
                  ELSE n
         IN  IF NumLess(MathFloor(v), EPOCH_2000_MS) THEN fileMtimeMs ELSE MathFloor(v)

\* The base timestamps of the given source that the document has offered.
OfferedBy(src) == {offered[i].v : i \in {j \in 1..Len(offered) : offered[j].src = src}}

\* The base timestamps that the priority order allows: a numeric <info time>
\* when the document has one, else a parseable <timestamp value>; none when
\* the document has neither.
ByPriority ==
    IF OfferedBy("info") # {} THEN OfferedBy("info") ELSE OfferedBy("timestamp")

\* C17: in the telemetry ingest the header's start timestamp is resolved by
\* priority: a numeric <info time> when the document has one, whichever of
\* <info> and <timestamp> comes first; else a parseable <timestamp value>;
\* else the file's modification time; also in a document without <data>.  (A
\* resolved value before 2000 is replaced by the modification time.)
C17_BaseTsByPriority ==
    (kind = "telemetry" /\ Out # << >>)
    => IF ByPriority = {} THEN Out[1].ts = fileMtimeMs
       ELSE \E x \in ByPriority :
               Out[1].ts = IF NumLess(x, EPOCH_2000_MS) THEN fileMtimeMs ELSE x

\* C18: in the telemetry ingest, when the base timestamp resolved from the
\* document (the last numeric <info time> or parseable <timestamp value> read
\* before the header is written) is missing or earlier than 2000-01-01 UTC,
\* the header's start timestamp is the file's modification time; and the
\* header's start timestamp is never earlier than 2000-01-01 UTC.
C18_Pre2000BecomesMtime ==
    (kind = "telemetry" /\ Out # << >>)
    => /\ ~NumLess(Out[1].ts, EPOCH_2000_MS)
       /\ (offered = << >> \/ NumLess(offered[Len(offered)].v, EPOCH_2000_MS))
          => Out[1].ts = fileMtimeMs

\* The document gave time="900000000000" (1998) and then opened <data>: the
\* header holds the modification time.
C18_Witness ==
    /\ kind = "telemetry"
    /\ pc = "parse"
    /\ ctx.inData
    /\ offered = <<[src |-> "info", v |-> Number(TimeOld)]>>
    /\ Out # << >>
    /\ Out[1].k = "hdr"
    /\ Out[1].ts = fileMtimeMs

\* The number the root element of a datalink document gives as time_ms (or
\* UTC), NaN when it has neither.
RootTime ==
    LET t == FirstAttr(xml[1].attrs, <<"time_ms", "UTC">>)
    IN  IF t.has THEN Number(t.val) ELSE NaN

\* C19: in the datalink ingest the header's start timestamp is the root's
\* time_ms/UTC attribute normalised: seconds (1e9 <= v < 1e12) become
\* milliseconds, and a missing, non-numeric or pre-2000 value becomes the
\* file's modification time.
C19_DatalinkBaseTsNormalised ==
    (kind = "datalink" /\ xml # << >> /\ Out # << >>)
    => Out[1].ts = normalizeEpochMs(RootTime)

\* C20: the header holds the base timestamp in full: in the telemetry ingest
\* it is one of the timestamps the document gave or the modification time,
\* unchanged; in the datalink ingest a root time of 2^32 or more is stored
\* unchanged, not reduced modulo 2^32.
C20_HeaderTimestampIs64Bit ==
    /\ (kind = "telemetry" /\ Out # << >>)
       => Out[1].ts \in {offered[i].v : i \in 1..Len(offered)} \cup {fileMtimeMs}
    /\ (kind = "datalink" /\ xml # << >> /\ Out # << >>
        /\ NumberIsFinite(RootTime) /\ ~NumLess(RootTime, Norm(FALSE, 1, 32)))
       => Out[1].ts = RootTime


FieldNameOfSample(out, j) ==
    LET decl == SelectSeq(out, IsFieldRecord)
    IN  IF out[j].idx + 1 \in 1..Len(decl) THEN decl[out[j].idx + 1].name ELSE ""

\* A close tag of a child of <U> of the telemetry ingest, whose text is a
\* number, while the dictionary has room.
UChildCloses ==
    /\ kind = "telemetry"
    /\ Len(xml) >= 2
    /\ xml' = Pop(xml)
    /\ ctx.inU
    /\ xml[Len(xml) - 1].name = "U"
    /\ xml[Len(xml)].name \notin {"D", "E", "U"}
    /\ Trim(ctx.uCurText) # << >>
    /\ NumberIsFinite(Number(Trim(ctx.uCurText)))
    /\ Len(ctx.fields) < MAX_FIELDS

\* C22 (one step): the close tag of a child <name>text</name> of <U> leaves
\* a field called by the child's tag in the dictionary, and, when the tag is
\* new, writes an uplink sample of that field.
UChildSampleNamedByTag ==
    UChildCloses
    => LET nm == xml[Len(xml)].name
           out == writer'.out
       IN  /\ \E i \in 1..Len(out) : out[i].k = "field" /\ out[i].name = nm
           /\ nm \notin DOMAIN ctx.nameToIndex
              => \E j \in (Len(Out) + 2)..Len(out) :
                    /\ out[j].k = "val" /\ out[j - 1].k = "dir"
                    /\ FieldNameOfSample(out, j) = nm

\* C22: in the telemetry ingest a child <name>text</name> of <U> gives an
\* uplink sample whose field is the child's tag name, declared on the fly
\* when the name is new.
C22_UChildFieldIsTagName == [][UChildSampleNamedByTag]_vars


\* A close tag of a child of <U> of the telemetry ingest that carries a
\* field name (its name attribute) and a number as text.
UNamedChildCloses ==
    /\ kind = "telemetry"
    /\ Len(xml) >= 2
    /\ xml' = Pop(xml)
    /\ ctx.inU
    /\ xml[Len(xml)].name \notin {"D", "E", "U"}
    /\ Trim(ctx.uCurName) # << >>
    /\ Trim(ctx.uCurText) # << >>
    /\ NumberIsFinite(Number(Trim(ctx.uCurText)))

\* C23 (one step, a new name): the field is declared in this step, the
\* sample that uses it follows its declaration and a dir opcode, and its
\* index is the number of fields declared before that declaration.
NewUplinkFieldDeclaredFirst ==
    (/\ UNamedChildCloses
     /\ Str(Trim(ctx.uCurName)) \notin DOMAIN ctx.nameToIndex
     /\ Len(ctx.fields) < MAX_FIELDS)
    => LET nm == Str(Trim(ctx.uCurName))
           out == writer'.out
       IN  \E p \in (Len(Out) + 1)..Len(out) :
              /\ out[p].k = "field" /\ out[p].name = nm
              /\ \E j \in (p + 2)..Len(out) :
                    /\ out[j].k = "val" /\ out[j - 1].k = "dir"
                    /\ out[j].idx = Cardinality({q \in 1..(p - 1) : out[q].k = "field"})

\* C23 (one step, a repeated name and value): nothing is declared and no
\* sample is written.
RepeatedUplinkWritesNothing ==
    (/\ UNamedChildCloses
     /\ Str(Trim(ctx.uCurName)) \in DOMAIN ctx.nameToIndex
     /\ ctx.nameToIndex[Str(Trim(ctx.uCurName))] \in DOMAIN writer.lastUp
     /\ ObjectIs(writer.lastUp[ctx.nameToIndex[Str(Trim(ctx.uCurName))]],
                 Number(Trim(ctx.uCurText))))
    => \A j \in (Len(Out) + 1)..Len(writer'.out) :
          writer'.out[j].k \notin {"field", "val", "dir"}

\* C23: a new field of an uplink burst is declared at once, before the dir
\* opcode and the sample that first use it, with the next index after every
\* field declared so far; the same burst repeated with the same values writes
\* no declaration and no sample.
C23_UplinkDeclaredOnFirstUse ==
    [][NewUplinkFieldDeclaredFirst /\ RepeatedUplinkWritesNothing]_vars


\* The tokens of the row whose close tag is next, as its ingest splits them.
RowTokens ==
    IF kind = "telemetry" THEN parseCsvKeepEmpty(ctx.currentD_text)
    ELSE splitTokensLoose(dctx.csvText)

\* The close tag of a row: <D> in the telemetry ingest, the open CSV element
\* in the datalink ingest.
RowCloses ==
    /\ xml # << >>
    /\ xml' = Pop(xml)
    /\ \/ kind = "telemetry" /\ ctx.inD /\ Top(xml) = "D"
       \/ kind = "datalink" /\ dctx.inCsv /\ Top(xml) = dctx.csvTag

IsNumericToken(tok) == tok # << >> /\ NumberIsFinite(Number(tok))

\* C24 (one step): every sample a row writes is the number of the token of
\* its column, and every numeric token of a declared column whose value is
\* not the cached one is written.
RowSkipsNonNumeric ==
    RowCloses
    => LET parts == RowTokens
           out == writer'.out
           width == IF kind = "telemetry" THEN Len(ctx'.fields) ELSE Len(dctx'.fields)
       IN  /\ \A j \in (Len(Out) + 1)..Len(out) :
                 out[j].k = "val"
                 => /\ out[j].idx + 1 \in 1..Len(parts)
                    /\ IsNumericToken(parts[out[j].idx + 1])
                    /\ out[j].v = Number(parts[out[j].idx + 1])
           /\ \A i \in 0..(Len(parts) - 1) :
                 (/\ IsNumericToken(parts[i + 1])
                  /\ i < width /\ i < writer'.declaredFields
                  /\ (i \in DOMAIN writer.lastDown
                      => ~ObjectIs(writer.lastDown[i], Number(parts[i + 1]))))
                 => \E j \in (Len(Out) + 1)..Len(out) :
                       out[j].k = "val" /\ out[j].idx = i

\* C24: in both ingests a CSV token that is empty or not a finite number
\* writes no sample and does not stop the row: the other columns are written
\* on their own indexes, and a row without a numeric token writes no
\* placeholder value.
C24_NonNumericTokenSkipped == [][RowSkipsNonNumeric]_vars


\* The capture state of the ingest that runs.
CaptureOf(c) == [active |-> c.capJsoActive, depth |-> c.capJsoDepth,
                 name |-> c.capJsoName, buf |-> c.capXml]

CaptureIdle == [active |-> FALSE, depth |-> 0, name |-> "", buf |-> << >>]

\* C25 (one step): a close tag whose re-parse of the captured sub-tree fails
\* writes no jso record, leaves the capture state reset and does not end the
\* repack.
FailedReparseIsSkipped ==
    warned'
    => /\ \A j \in (Len(Out) + 1)..Len(writer'.out) : writer'.out[j].k # "jso"
       /\ CaptureOf(IF kind = "telemetry" THEN ctx' ELSE dctx') = CaptureIdle
       /\ pc' = "parse"

\* C25: a failed re-parse of a captured sub-tree is not fatal in either
\* ingest: no jso record is written for it, the capture state is reset, and
\* the repack goes on to a complete output that ends with the stop byte.
C25_FailedReparseNotFatal ==
    /\ [][FailedReparseIsSkipped]_vars
    /\ [](Completed => Out # << >> /\ Out[Len(Out)].k = "stop")

\* A re-parse has just failed in the datalink ingest: the output holds the
\* header and the info object only, and the capture is idle.
C25_Witness ==
    /\ warned
    /\ kind = "datalink"
    /\ pc = "parse"
    /\ CaptureOf(dctx) = CaptureIdle
    /\ Cardinality(Where("jso")) = 1


\* C26: after the parser or the input stream has reported an error the
\* finish block never runs: the output of a failed repack holds no stop
\* byte, and an output that holds one comes from a repack whose parser
\* reached the end of the input with every element closed.
C26_NoStopAfterParserError ==
    /\ (Repack /\ pc = "failed") => Where("stop") = {}
    /\ (Repack /\ Where("stop") # {}) => (pc = "done" /\ xml = << >>)

\* A repack that failed in the middle of a document, after it had written
\* the header: the output ends without a stop byte.
C26_Witness ==
    /\ Repack
    /\ pc = "failed"
    /\ xml # << >>
    /\ Out # << >> /\ Out[1].k = "hdr"
    /\ Where("stop") = {}


\* C27: runRepack fails when the input does not exist or the sniffer cannot
\* classify it, and then no ingest has been called and nothing has been
\* written; in every other case it has called the ingest of the dialect the
\* sniffer detected, and only that one.
C27_RunRepackDispatch ==
    /\ pc = "start" => kind = "none" /\ Out = << >>
    /\ pc = "failed" =>
          /\ ~file.exists \/ sniffXmlKind(file) = "null"
          /\ kind = "none"
          /\ Out = << >>
    /\ pc = "parse" =>
          /\ file.exists
          /\ sniffXmlKind(file) \in {"telemetry", "datalink"}
          /\ kind = sniffXmlKind(file)
    /\ pc \in {"start", "failed", "parse"}

\* A file that exists and that the sniffer could not classify: runRepack has
\* failed without calling an ingest.
C27_Witness ==
    /\ pc = "failed"
    /\ file.exists
    /\ file.base = BasePlain
    /\ file.head.text = <<"<", "l", "o", "g", "/", ">">>
    /\ kind = "none"
    /\ Out = << >>

\* The rules of the sniffer in their order: what each looks for in the
\* lower-cased base name, the lower-cased head and the top-level names of
\* the parsed head, and its verdict.
SniffRules(f) ==
    LET base == toLowerCase(f.base)
        head == toLowerCase(f.head.text)
        names == IF f.head.throws THEN {}
                 ELSE {toLowerCase(f.head.keys[i]) : i \in 1..Len(f.head.keys)}
    IN  << [hit |-> endsWith(base, <<".", "t", "e", "l", "e", "m", "e", "t", "r", "y">>), verdict |-> "telemetry"],
           [hit |-> endsWith(base, <<".", "d", "a", "t", "a", "l", "i", "n", "k", ".", "x", "m", "l">>) \/ includes(base, <<".", "d", "a", "t", "a", "l", "i", "n", "k">>),
            verdict |-> "datalink"],
           [hit |-> includes(head, <<"<", "t", "e", "l", "e", "m", "e", "t", "r", "y">>), verdict |-> "telemetry"],
           [hit |-> \/ includes(head, <<"<", "m", "a", "n", "d", "a", "l", "a">>)
                    \/ includes(head, <<"<", "s", ">">>) \/ includes(head, <<"<", "d", ">">>),
            verdict |-> "datalink"],
           [hit |-> \E k \in names : includes(k, <<"t", "e", "l", "e", "m", "e", "t", "r", "y">>), verdict |-> "telemetry"],
           [hit |-> \E k \in names : \/ includes(k, <<"d", "a", "t", "a", "l", "i", "n", "k">>)
                                     \/ includes(k, <<"m", "a", "n", "d", "a", "l", "a">>),
            verdict |-> "datalink"],
           [hit |-> TRUE, verdict |-> "none"] >>

FirstVerdict(f) ==
    LET rules == SniffRules(f)
        first == CHOOSE i \in 1..Len(rules) :
                    rules[i].hit /\ \A j \in 1..(i - 1) : ~rules[j].hit
    IN  rules[first].verdict

\* C28: the sniffer's verdict is that of the first rule that matches, in the
\* order name ends in .telemetry, name holds .datalink, head holds
\* <telemetry, head holds <mandala, <s> or <d>, a top-level name holds
\* telemetry, a top-level name holds datalink or mandala, else unknown.
C28_SniffFirstRuleWins ==
    (pc # "start" /\ file.exists) => kind = FirstVerdict(file)

\* A file called a.datalink.xml whose content is <telemetry>: the name
\* rule has decided, the run is a datalink run.
C28_Witness ==
    /\ pc = "parse"
    /\ file.exists
    /\ file.base = BaseDatalinkXml
    /\ file.head.text = <<"<", "t", "e", "l", "e", "m", "e", "t", "r", "y", ">">>
    /\ kind = "datalink"


\* C29: while the timestamps of the rows, events and uplink children read
\* from the input have never gone back, the ts markers of the output are in
\* non-decreasing order, captured sub-trees between rows included.
C29_TsMarkersFollowInput ==
    (Repack /\ inputTs.sorted)
    => \A i, j \in Where("ts") : i < j => ~NumLess(Out[j].ms, Out[i].ms)


IsRawRecord(r) == r.k = "raw"

RECURSIVE SumOfLengths(_)
SumOfLengths(chunks) ==
    IF chunks = << >> THEN 0 ELSE chunks[1].len + SumOfLengths(Tail(chunks))

\* C30 (one step): an emitRaw call that writes a blob longer than 65535
\* bytes in raw form writes chunks that each have their own opcode byte and
\* the name literal, all but the last 65535 bytes long, and whose lengths
\* add up to the blob's length.
RawChunksAreRecords ==
    (/\ call'.op = "emitRaw"
     /\ nCalls' = nCalls + 1
     /\ call'.idx > RAW_CHUNK_MAX
     /\ \E j \in (Len(Out) + 1)..Len(writer'.out) : writer'.out[j].k = "raw")
    => LET chunks == SelectSeq(SubSeq(writer'.out, Len(Out) + 1, Len(writer'.out)),
                               IsRawRecord)
       IN  /\ \A i \in 1..Len(chunks) : chunks[i].opcode /\ chunks[i].name = "blob"
           /\ \A i \in 1..(Len(chunks) - 1) : chunks[i].len = RAW_CHUNK_MAX
           /\ SumOfLengths(chunks) = call'.idx

\* C30: every chunk of a blob longer than 65535 bytes that emitRaw writes in
\* raw form is a complete raw record of its own: opcode byte, name literal,
\* u16 length and that many bytes; all chunks but the last hold 65535 bytes
\* and the lengths add up to the length of the blob.
C30_RawChunksAreRecords == [][RawChunksAreRecords]_vars


\* The <fields> lists of the documents that pass the acceptance rule.
AcceptedLists ==
    {l \in {MapStr(splitFieldsSmart(Trim(txt))) : txt \in Texts("rows", "fields")} :
        Len(l) >= 5}

\* A row closes in the telemetry ingest while no declaration burst has been
\* written: the close of the first <D>.
FirstRowCloses ==
    /\ kind = "telemetry" /\ pc = "parse"
    /\ xml # << >> /\ Top(xml) = "D" /\ xml' = Pop(xml)
    /\ ctx.inD /\ ~ctx.fieldsDeclared

\* The names the first row has to declare: the accepted list, or #0..#N-1.
NamesOfFirstRow ==
    LET n == Min(Len(parseCsvKeepEmpty(ctx.currentD_text)), MAX_FIELDS)
    IN  IF ctx.fields \in AcceptedLists
        THEN SubSeq(ctx.fields, 1, Min(Len(ctx.fields), MAX_FIELDS))
        ELSE SynthFields(n)

FirstRowDeclaresInOneBurst ==
    LET new == SubSeq(writer'.out, Len(Out) + 1, Len(writer'.out))
        names == NamesOfFirstRow
    IN  /\ Len(new) >= Len(names)
        /\ \A i \in 1..Len(names) : new[i].k = "field" /\ new[i].name = names[i]
        /\ \A i \in (Len(names) + 1)..Len(new) : new[i].k \in {"ts", "val"}

FieldsListAcceptedFromFive ==
    (kind = "telemetry" /\ ctx'.fields # ctx.fields /\ lastEv' = "text")
        => ctx'.fields \in AcceptedLists

\* C31: the telemetry ingest takes a <fields> list only when it has at least
\* 5 tokens; when the first <D> closes, the accepted list, or else the names
\* #0..#N-1 with N = min(tokens of the row, MAX_FIELDS), are declared in one
\* burst, in list order, before the row's ts marker and samples.
C31_FieldsDeclaredInOneBurst ==
    [][/\ FieldsListAcceptedFromFive
       /\ FirstRowCloses => FirstRowDeclaresInOneBurst]_vars


\* C32: the header of every file an ingest writes carries format version 1.
C32_HeaderVersionIsOne ==
    Repack => \A i \in 1..Len(Out) : Out[i].k = "hdr" => Out[i].version = 1


\* C33 (one step): the info record emitInfo writes holds the timestamp of
\* the object passed, or the encoder's start timestamp when it had none.
InfoTimestampIsHeaders ==
    (call'.op = "emitInfo" /\ nCalls' = nCalls + 1)
    => LET r == writer'.out[Len(writer'.out)]
       IN  /\ Len(writer'.out) = Len(Out) + 1
           /\ IsInfo(r)
           /\ r.obj.hasTimestamp
           /\ r.obj.timestamp = IF call'.idx = 1 THEN call'.v
                                ELSE writer.startTimestampMs64

\* C33: an info object passed to emitInfo without a timestamp is written
\* with the header's start timestamp, the full ms-epoch value of header
\* bytes 32..40; a timestamp the caller supplied is written unchanged.
C33_InfoTimestampIsHeaders == [][InfoTimestampIsHeaders]_vars


\* The positions of the ts records of the output, and the last of them
\* before position i (0 when there is none).
LastTsBefore(i) ==
    LET marks == {j \in 1..(i - 1) : Out[j].k = "ts"}
    IN  IF marks = {} THEN 0 ELSE CHOOSE j \in marks : \A m \in marks : m <= j

\* C34: in the telemetry ingest a ts marker never repeats the value of the
\* ts marker before it, the ingest's lastTs is the value of the last marker
\* written (-1 before the first), and every sample and event record has a ts
\* marker before it: the first record always writes one.
C34_NoRepeatedTsMarker ==
    kind = "telemetry"
    => /\ \A i \in Where("ts") :
            LastTsBefore(i) # 0 => Out[LastTsBefore(i)].ms # Out[i].ms
       /\ ctx.lastTs = IF Where("ts") = {} THEN FromInt(-1)
                       ELSE Out[LastTsBefore(Len(Out) + 1)].ms
       /\ \A i \in 1..Len(Out) : Out[i].k \in {"val", "evt"} => LastTsBefore(i) # 0

\* Two events of the same timestamp: one ts marker, two evt records after it.
C34_Witness ==
    /\ kind = "telemetry"
    /\ inputTs.last = FromInt(100)
    /\ \E i, j \in Where("evt") :
          /\ i < j
          /\ LastTsBefore(i) # 0
          /\ LastTsBefore(j) = LastTsBefore(i)
          /\ Out[LastTsBefore(i)].ms = FromInt(100)


\* The last ts record of out before position i (0 when there is none).
LastTsIn(out, i) ==
    LET marks == {j \in 1..(i - 1) : out[j].k = "ts"}
    IN  IF marks = {} THEN 0 ELSE CHOOSE j \in marks : \A m \in marks : m <= j

\* C35 (one step): the samples and events a close tag of the telemetry
\* ingest writes stand under a ts marker of the closing element's timestamp.
RecordsUnderOwnTs ==
    (kind = "telemetry" /\ xml # << >> /\ xml' = Pop(xml))
    => \A j \in (Len(Out) + 1)..Len(writer'.out) :
          writer'.out[j].k \in {"val", "evt"}
          => /\ LastTsIn(writer'.out, j) # 0
             /\ writer'.out[LastTsIn(writer'.out, j)].ms = ToUint32(ElementTs(xml[Len(xml)]))

\* C35: every sample and event record the telemetry ingest writes has, as
\* the most recent ts marker before it, a marker of its own source timestamp
\* (the t attribute, 0 when absent, modulo 2^32), also when the marker was
\* written by an earlier record and suppressed for this one.
C35_RecordsUnderOwnTs == [][RecordsUnderOwnTs]_vars

\* An uplink sample of timestamp 100 written under a marker that an earlier
\* sample already stands under.
C35_Witness ==
    /\ kind = "telemetry"
    /\ inputTs.last = FromInt(100)
    /\ Len(Out) >= 2
    /\ Out[Len(Out)].k = "val" /\ Out[Len(Out) - 1].k = "dir"
    /\ LastTsBefore(Len(Out)) # 0
    /\ Out[LastTsBefore(Len(Out))].ms = FromInt(100)
    /\ \E j \in (LastTsBefore(Len(Out)) + 1)..(Len(Out) - 2) : Out[j].k = "val"


\* The last ts or value record of out before position i (0 when none).
LastMarkIn(out, i) ==
    LET marks == {j \in 1..(i - 1) : out[j].k \in {"ts", "val"}}
    IN  IF marks = {} THEN 0 ELSE CHOOSE j \in marks : \A m \in marks : m <= j

\* The value record after the dir record at position i of out is framed as
\* if the dir record were not there.
FramedAcrossDir(out, i) ==
    LET p == LastMarkIn(out, i)
        delta == out[i + 1].idx - out[p].idx - 1
    IN  IF p # 0 /\ out[p].k = "val" /\ delta >= 0 /\ delta <= 7
        THEN out[i + 1].form = "opt8" /\ out[i + 1].delta = delta
        ELSE out[i + 1].form = "long"

\* C36 (one step): after the step every dir record is directly followed by
\* a value record framed against the value before the dir; an uplink call
\* with an undeclared index or an unchanged value has written nothing.
DirThenValue ==
    /\ \A i \in 1..Len(writer'.out) :
          writer'.out[i].k = "dir"
          => /\ i < Len(writer'.out)
             /\ writer'.out[i + 1].k = "val"
             /\ FramedAcrossDir(writer'.out, i)
    /\ (/\ call'.op = "emitNumber" /\ nCalls' = nCalls + 1 /\ call'.uplink
        /\ \/ ~(call'.idx >= 0 /\ call'.idx < writer.declaredFields)
           \/ /\ <<TRUE, call'.idx>> \in DOMAIN accepted
              /\ accepted[<<TRUE, call'.idx>>] = call'.v)
       => writer'.out = Out

\* C36: every dir opcode of the output is immediately followed by a value
\* record; a rejected or suppressed uplink sample writes no dir opcode; the
\* dir opcode leaves last_index as it was, so the value after it takes the
\* opt8 form whenever the value before the dir allows it.
C36_DirThenValue == [][DirThenValue]_vars

\* An output that holds a dir opcode followed by a value in opt8 form and
\* one followed by a value in long form.
C36_Witness ==
    /\ \E i \in 1..(Len(Out) - 1) : Out[i].k = "dir" /\ Out[i + 1].form = "opt8"
    /\ \E i \in 1..(Len(Out) - 1) : Out[i].k = "dir" /\ Out[i + 1].form = "long"


JsoWritten(out, from) ==
    Cardinality({j \in (from + 1)..Len(out) : out[j].k = "jso" /\ out[j].name # "info"})

\* C37 (one step of the telemetry ingest with capture enabled): a close tag
\* ends the capture exactly when it closes the element the capture started
\* at, and then leaves the capture state idle and has written at most one
\* jso record; no other step writes one; an open tag read while a capture is
\* active continues that capture.
CaptureEndsAtItsCloseTag ==
    (kind = "telemetry" /\ includeJso /\ pc = "parse")
    => /\ (xml # << >> /\ xml' = Pop(xml))
          => /\ (ctx.capJsoActive /\ ~ctx'.capJsoActive)
                    <=> (capStart # 0 /\ Len(xml) = capStart)
             /\ JsoWritten(writer'.out, Len(Out))
                    <= (IF capStart # 0 /\ Len(xml) = capStart THEN 1 ELSE 0)
             /\ ~ctx'.capJsoActive
                    => (ctx'.capXml = << >> /\ ctx'.capJsoDepth = 0 /\ ctx'.capJsoName = "")
       /\ (Len(xml') = Len(xml) + 1 /\ ctx.capJsoActive)
          => /\ ctx'.capJsoActive
             /\ ctx'.capJsoName = ctx.capJsoName
             /\ ctx'.capJsoDepth = ctx.capJsoDepth
             /\ Len(ctx'.capXml) >= Len(ctx.capXml)
             /\ SubSeq(ctx'.capXml, 1, Len(ctx.capXml)) = ctx.capXml
             /\ writer'.out = Out

\* C37: with JSO capture enabled, a capture of the telemetry ingest ends
\* exactly at the close tag of the element it started at, also when
\* descendants carry the same name or D, E or U elements are nested inside;
\* it writes at most one jso record, no second capture starts while it is
\* active, and after that close tag the capture state is idle and empty.
C37_CaptureEndsAtItsCloseTag == [][CaptureEndsAtItsCloseTag]_vars


\* C38 (one step of the telemetry ingest with capture enabled): the open tag
\* of a child of <U> starts no capture and its close tag writes no jso
\* record.
UChildNotCaptured ==
    (kind = "telemetry" /\ includeJso /\ pc = "parse")
    => /\ (Len(xml') = Len(xml) + 1 /\ Top(xml) = "U" /\ ctx.inU)
          => (ctx'.capJsoActive = ctx.capJsoActive)
       /\ (Len(xml) >= 2 /\ xml' = Pop(xml) /\ xml[Len(xml) - 1].name = "U" /\ ctx.inU)
          => \A j \in (Len(Out) + 1)..Len(writer'.out) :
                writer'.out[j].k \in {"field", "ts", "dir", "val"}

\* C38: with JSO capture enabled, a child element of <U> is read only as an
\* uplink sample: it starts no sub-tree capture and no jso record is written
\* for it; an uplink burst writes only field declarations, ts markers, dir
\* opcodes and samples.
C38_UChildNotCaptured == [][UChildNotCaptured]_vars


\* C39: a value record on the field index of the value record right before
\* it, with no ts marker between the two, has the one-byte opt8 form.
C39_SameIndexIsOpt8 ==
    \A i \in Where("val") :
        (/\ LastMarkBefore(i) # 0
         /\ Out[LastMarkBefore(i)].k = "val"
         /\ Out[LastMarkBefore(i)].idx = Out[i].idx)
        => Out[i].form = "opt8"


\* C40: in the telemetry ingest inU is true only while a <U> element is
\* open: once every <U> is closed, whatever elements it held, inU is false.
C40_InUOnlyInsideU ==
    (kind = "telemetry" /\ ctx.inU) => \E d \in 1..Len(xml) : xml[d].name = "U"

=============================================================================
